---------------------------- MODULE Spec2Model ----------------------------
(***************************************************************************)
(* A model of the AutoExplorer robot stack (TECnicallyTesla/AutoExplorer): *)
(*   - NavigationController  (src/modules/navigation_module.py)            *)
(*   - RobotSystem, its main loop and emergency-stop handler (src/main.py) *)
(*   - SystemMonitor's monitoring thread (src/modules/system_monitor.py)   *)
(*   - VoiceCommandHandler's dispatch (src/modules/voice_command_handler.py)*)
(*   - OccupancyGrid (src/modules/mapping_module.py)                       *)
(*                                                                         *)
(* Four specifications share the variables:                                *)
(*   SpecNav    callers of the NavigationController's public methods       *)
(*   SpecSys    the threads of a running RobotSystem                       *)
(*   SpecGrid   a thread that updates one OccupancyGrid and its readers    *)
(*   SpecRepeat one update_occupancy call repeated on one grid             *)
(***************************************************************************)
EXTENDS Integers, Sequences, FiniteSets, TLC

VARIABLES
    \* ---- NavigationController (navigation_module.py) ----
    picar,            \* TRUE iff self.picar is not None (Picarx() succeeded)
    max_speed,        \* self.max_speed
    current_pose,     \* self._current_pose
    hwOut,            \* the call made on the Picarx object in this step:
                      \* <<>> or <<[src, cmd, arg, ok]>>
    stopPc,           \* per thread: position inside NavigationController.stop()
    navEstopCalled,   \* history: emergency_stop() has been entered
    ret,              \* the call that returned in this step: <<>> or <<[op, args, out]>>
    \* ---- SensorModule (sensor_module.py) ----
    latest_proximity, \* self._latest_proximity['center']
    \* ---- RobotSystem (main.py) ----
    is_running,       \* self.is_running
    autonomous_mode,  \* self.autonomous_mode
    emergency_stop_triggered,   \* self.emergency_stop_triggered
    mainPc,           \* position of the main thread in _main_loop
    \* ---- SystemMonitor (system_monitor.py) ----
    monRunning,       \* SystemMonitor.is_running
    monPc,            \* position of the monitoring thread
    monRet,           \* where the monitoring thread goes on after the callback
    monStatus,        \* the SystemStatus collected in this monitoring cycle
    battery,          \* what _read_battery_voltage gives now, in 0.1 V
    cpu_temp,         \* what _read_cpu_temperature gives now, in degrees C
    \* ---- OccupancyGrid (mapping_module.py) ----
    grid,             \* self.grid, cell <<x, y>> being self.grid[y, x]
    updPc,            \* position inside update_occupancy, and its locals
    updates,          \* history: how many update_occupancy calls were begun
    readOut,          \* what the reader call made in this step gave: <<>> or <<result>>
    repeatInput,      \* the reading that is repeated: <<>> or <<reading>>
    evidence,         \* history: the occupied updates minus the free updates
                      \* that CellUpdate gave the observed cell
    \* ---- files, and a second OccupancyGrid that loads them ----
    files,            \* file name -> <<>> (no such file) or <<content>>
    other,            \* the fields of the grid object that load_grid_from_file
                      \* is called on
    lastSaved,        \* history: the last save_grid_to_file call, <<>> or
                      \* <<[path, grid, resolution_cm]>>
    fileOut,          \* the file call made in this step: <<>> or <<[op, path, out]>>
    \* ---- single calls of the constructor and the coordinate transforms ----
    callIn,           \* the last call: its name and arguments
    callOut,          \* the result of the call made in this step, or <<>>
    calls,            \* the number of calls made
    coordCache,       \* the lru_cache of _world_to_grid and of _grid_to_world:
                      \* arguments -> result
    \* ---- the polling thread of SensorModule, the listener thread of ----
    \* ---- VoiceCommandHandler, and the thread that starts and stops them ----
    sensorHw,         \* SensorModule.picar is not None
    flag,             \* worker -> its loop flag (_running, _is_listening)
    handle,           \* worker -> the Thread object held (_proximity_thread,
                      \* _command_thread): 0 for None, or a thread number
    thr,              \* thread number -> [kind, pc], the Thread objects
    ctl,              \* where the controlling thread is: idle, or inside the
                      \* join of a stop call
    ctlOut,           \* the start or stop call that returned in this step:
                      \* <<>> or <<[op, kind, out]>>
    \* ---- the status history of SystemMonitor ----
    status_history,   \* self.status_history, each reading held as its
                      \* arrival number
    readings          \* history: how many readings _update_history was given

navVars == <<picar, max_speed, current_pose, hwOut, stopPc, navEstopCalled,
             ret, latest_proximity>>

\* the controller's variables but ret
navRest == <<picar, max_speed, current_pose, hwOut, stopPc, navEstopCalled,
             latest_proximity>>

sysVars == <<is_running, autonomous_mode, emergency_stop_triggered, mainPc,
             monRunning, monPc, monRet, monStatus, battery, cpu_temp>>

gridVars == <<grid, updPc, updates, readOut, repeatInput, evidence>>

fileVars == <<files, other, lastSaved, fileOut>>

callVars == <<callIn, callOut, calls, coordCache>>

thrVars == <<sensorHw, flag, handle, thr, ctl, ctlOut>>

histVars == <<status_history, readings>>

vars == <<navVars, sysVars, gridVars, fileVars, callVars, thrVars, histVars>>

-----------------------------------------------------------------------------
(* NavigationController *)

\* float('inf'), the initial value of every _latest_proximity entry
Inf == 1000000

\* An Optional argument is <<>> (None) or <<v>>
None == <<>>

\* self.min_obstacle_distance, self.robot_radius, self.safety_margin
min_obstacle_distance == 20
robot_radius == 15
safety_margin == 5
\* self.max_speed as set by __init__
InitialMaxSpeed == 50

\* Threads that call the controller's public methods in SpecNav
Callers == {"c1", "c2"}
\* Threads of a running RobotSystem (SpecSys)
SysThreads == {"main", "monitor", "voice"}
Threads == Callers \cup SysThreads

\* Picarx calls that set the car in motion or steer it away from straight
MotionFuncs == {"forward", "backward"}
IsMotion(e) == e.cmd \in MotionFuncs \/ (e.cmd = "set_dir_servo_angle" /\ e.arg # 0)

\* The names a NavigationController instance has: the attributes __init__
\* assigns and the methods the class defines.  Any other name raises
\* AttributeError.
NavigationControllerAttrs_WithPrivateSpeed ==
    {"grid", "_current_pose", "picar", "min_obstacle_distance", "robot_radius",
     "safety_margin", "max_speed", "_max_speed", "_motion_primitives",
     "_current_path", "_path_target", "_generate_motion_primitives",
     "_safe_hardware_call", "move_forward", "move_backward", "turn_left",
     "turn_right", "stop", "emergency_stop", "set_speed", "cleanup"}

NavigationControllerAttrs ==
    {"grid", "_current_pose", "picar", "min_obstacle_distance", "robot_radius",
     "safety_margin", "max_speed", "_motion_primitives", "_current_path",
     "_path_target", "_generate_motion_primitives", "_safe_hardware_call",
     "move_forward", "move_backward", "turn_left", "turn_right", "stop",
     "emergency_stop", "set_speed", "cleanup"}

NavHasAttr(name) == name \in NavigationControllerAttrs

\* _safe_hardware_call(func, arg): with no hardware the call is skipped and
\* False returned; otherwise getattr(self.picar, func)(arg) is called, and it
\* returns True unless the call raises (ok = FALSE), in which case the
\* exception is swallowed and False returned.
HwEntry(src, func, arg, ok) == [src |-> src, cmd |-> func, arg |-> arg, ok |-> ok]
SafeHardwareCallOut(src, func, arg, ok) ==
    IF picar THEN <<HwEntry(src, func, arg, ok)>> ELSE <<>>
\* the result when the exception of the hardware call is not counted
SafeHardwareCallResult_IgnoresFailure(ok) == picar
SafeHardwareCallResult(ok) == picar /\ ok
\* with no hardware the outcome of the skipped call is not an input
OkMatters(ok) == picar \/ ok

Idle(t) == stopPc[t].at = "idle"
IdleStop == [at |-> "idle", kind |-> "", stop_success |-> FALSE]

\* What a call gave its caller: a Python value as text ("True", "False",
\* "None") or the name of the exception it raised
Bool(b) == IF b THEN "True" ELSE "False"
Returned(op, args, out) == <<[op |-> op, args |-> args, out |-> out]>>

\* move_forward(speed) / move_backward(speed): lines 127-151
NavMove(t, func, op, speed, ok) ==
    /\ Idle(t)
    /\ OkMatters(ok)
    /\ hwOut' = SafeHardwareCallOut(op, func,
                    IF speed = None THEN max_speed ELSE speed[1], ok)
    /\ ret' = Returned(op, <<>>, Bool(SafeHardwareCallResult(ok)))
    /\ UNCHANGED <<picar, max_speed, current_pose, stopPc, navEstopCalled,
                   latest_proximity>>

NavMoveForward(t, speed, ok) == NavMove(t, "forward", "move_forward", speed, ok)
NavMoveBackward(t, speed, ok) == NavMove(t, "backward", "move_backward", speed, ok)

\* turn_left(angle=90) / turn_right(angle=-90): lines 153-175
NavTurn(t, op, angle, ok) ==
    /\ Idle(t)
    /\ OkMatters(ok)
    /\ hwOut' = SafeHardwareCallOut(op, "set_dir_servo_angle", angle, ok)
    /\ ret' = Returned(op, <<>>, Bool(SafeHardwareCallResult(ok)))
    /\ UNCHANGED <<picar, max_speed, current_pose, stopPc, navEstopCalled,
                   latest_proximity>>

NavTurnLeft(t, ok) == NavTurn(t, "turn_left", 90, ok)
NavTurnRight(t, ok) == NavTurn(t, "turn_right", -90, ok)

\* stop(), line 185: the zero-angle call is made whatever the stop call gave
\* (both results are assigned before the `and` of line 186)
StopIssuesAngle_ShortCircuit(stop_success) == stop_success
StopIssuesAngle(stop_success) == TRUE

\* stop(), line 184, entered from stop() or emergency_stop()
NavStopBegin(t, kind, ok) ==
    /\ Idle(t)
    /\ OkMatters(ok)
    /\ hwOut' = SafeHardwareCallOut(kind, "stop", 0, ok)
    /\ stopPc' = [stopPc EXCEPT ![t] = [at |-> "angle", kind |-> kind,
                                        stop_success |-> SafeHardwareCallResult(ok)]]
    /\ navEstopCalled' = (navEstopCalled \/ kind = "emergency_stop")
    /\ ret' = <<>>
    /\ UNCHANGED <<picar, max_speed, current_pose, latest_proximity>>

\* stop(), lines 185-186, and the return to its caller (lines 190-191, 213-214)
NavStopEnd(t, ok) ==
    /\ stopPc[t].at = "angle"
    /\ OkMatters(ok)
    /\ LET s == stopPc[t]
           issue == StopIssuesAngle(s.stop_success)
           angle_success == issue /\ SafeHardwareCallResult(ok)
       IN /\ hwOut' = IF issue
                      THEN SafeHardwareCallOut(s.kind, "set_dir_servo_angle", 0, ok)
                      ELSE <<>>
          /\ ret' = Returned(s.kind, <<>>,
                              IF s.kind = "stop"
                              THEN Bool(s.stop_success /\ angle_success)
                              ELSE "None")
    /\ stopPc' = [stopPc EXCEPT ![t] = IdleStop]
    /\ UNCHANGED <<picar, max_speed, current_pose, navEstopCalled, latest_proximity>>

\* set_speed(speed): lines 203-205
Min(a, b) == IF a < b THEN a ELSE b
Max(a, b) == IF a > b THEN a ELSE b
NavSetSpeed(t, speed) ==
    /\ Idle(t)
    /\ max_speed' = Min(Max(0, speed), 100)
    /\ hwOut' = <<>>
    /\ ret' = Returned("set_speed", <<speed>>, "True")
    /\ UNCHANGED <<picar, current_pose, stopPc, navEstopCalled, latest_proximity>>

\* A call of a method the class does not define: the attribute lookup raises
\* AttributeError before anything else happens.  avoid_obstacle, get_pose,
\* update_pose, turn, find_nearest_frontier and navigate_to_point are called
\* by main.py, voice_command_handler.py and the tests, and are not defined.
NavMissingMethod(t, op, args) ==
    /\ Idle(t)
    /\ ~NavHasAttr(op)
    /\ hwOut' = <<>>
    /\ ret' = Returned(op, args, "AttributeError")
    /\ UNCHANGED <<picar, max_speed, current_pose, stopPc, navEstopCalled,
                   latest_proximity>>

NavAvoidObstacle(t, distance, bearing) ==
    NavMissingMethod(t, "avoid_obstacle", <<distance, bearing>>)
NavGetPose(t) == NavMissingMethod(t, "get_pose", <<>>)
NavUpdatePose(t, pose) == NavMissingMethod(t, "update_pose", <<pose>>)
NavFindNearestFrontier(t) == NavMissingMethod(t, "find_nearest_frontier", <<>>)

-----------------------------------------------------------------------------
(* SensorModule *)

\* _proximity_polling_loop, lines 127-139: the centre reading is overwritten
\* by whatever the hardware gives
SensorPoll(reading) ==
    /\ latest_proximity' = reading
    /\ hwOut' = <<>>
    /\ ret' = <<>>
    /\ UNCHANGED <<picar, max_speed, current_pose, stopPc, navEstopCalled>>

-----------------------------------------------------------------------------
(* SystemMonitor and RobotSystem *)

\* SystemMonitor's thresholds, lines 41-44; voltages in 0.1 V
BATTERY_CRITICAL_VOLTAGE == 64
BATTERY_WARNING_VOLTAGE == 68
CPU_TEMP_CRITICAL == 80
CPU_TEMP_WARNING == 70
\* the values of the placeholder readers, lines 171 and 177
PlaceholderCpuTemp == 45
PlaceholderBattery == 72

\* what the hardware readers may give once implemented
BatteryReadings == {PlaceholderBattery, BATTERY_WARNING_VOLTAGE, BATTERY_CRITICAL_VOLTAGE}
CpuTempReadings == {PlaceholderCpuTemp, CPU_TEMP_CRITICAL}

\* _collect_system_metrics, lines 110-129
CollectSystemMetrics == [battery_voltage |-> battery, cpu_temperature |-> cpu_temp]

\* the process runs until its main thread ends (the other threads are daemons)
ProcessAlive == mainPc # "exited"

InitSysVars ==
    /\ is_running = TRUE
    /\ autonomous_mode = FALSE
    /\ emergency_stop_triggered = FALSE
    /\ mainPc = "loop"
    /\ monRunning = TRUE
    /\ monPc = "loop"
    /\ monRet = "loop"
    /\ battery = PlaceholderBattery
    /\ cpu_temp = PlaceholderCpuTemp
    /\ monStatus = CollectSystemMetrics
    /\ status_history = <<>>
    /\ readings = 0

\* line 60
status_history_max_size == 60

\* the slice self.status_history[-self.status_history_max_size:] of line 165
LastEntries_KeepsOldest(h) == SubSeq(h, 1, status_history_max_size)
LastEntries(h) == SubSeq(h, Len(h) - status_history_max_size + 1, Len(h))

\* _update_history, lines 163-165, with the next reading
UpdateHistory ==
    /\ readings' = readings + 1
    /\ LET appended == Append(status_history, readings + 1)
       IN  status_history' = IF Len(appended) > status_history_max_size
                             THEN LastEntries(appended)
                             ELSE appended

\* The hardware readings change
EnvMetrics(b, c) ==
    /\ ProcessAlive
    /\ battery' = b
    /\ cpu_temp' = c
    /\ hwOut' = <<>>
    /\ ret' = <<>>
    /\ UNCHANGED <<picar, max_speed, current_pose, stopPc, navEstopCalled,
                   latest_proximity, is_running, autonomous_mode,
                   emergency_stop_triggered, mainPc, monRunning, monPc, monRet,
                   monStatus>>

\* ---- the monitoring thread: _monitoring_loop, lines 97-108 ----

\* line 99 and line 101: the loop test, then the metrics are collected
MonLoop ==
    /\ ProcessAlive
    /\ monPc = "loop"
    /\ IF monRunning
       THEN monStatus' = CollectSystemMetrics /\ monPc' = "check_battery"
       ELSE monStatus' = monStatus /\ monPc' = "dead"
    /\ hwOut' = <<>>
    /\ ret' = <<>>
    /\ UNCHANGED <<picar, max_speed, current_pose, stopPc, navEstopCalled,
                   latest_proximity, is_running, autonomous_mode,
                   emergency_stop_triggered, mainPc, monRunning, monRet,
                   battery, cpu_temp>>

\* _check_safety_thresholds, lines 138-145: the battery branch
MonCheckBattery ==
    /\ ProcessAlive
    /\ monPc = "check_battery"
    /\ IF monStatus.battery_voltage <= BATTERY_CRITICAL_VOLTAGE
       THEN monPc' = "es_flag" /\ monRet' = "check_temp"
       ELSE monPc' = "check_temp" /\ monRet' = monRet
    /\ hwOut' = <<>>
    /\ ret' = <<>>
    /\ UNCHANGED <<picar, max_speed, current_pose, stopPc, navEstopCalled,
                   latest_proximity, is_running, autonomous_mode,
                   emergency_stop_triggered, mainPc, monRunning, monStatus,
                   battery, cpu_temp>>

\* _check_safety_thresholds, lines 148-155: the temperature branch; then
\* _update_history and the sleep of lines 103-104
MonCheckTemp ==
    /\ ProcessAlive
    /\ monPc = "check_temp"
    /\ IF monStatus.cpu_temperature >= CPU_TEMP_CRITICAL
       THEN monPc' = "es_flag" /\ monRet' = "loop"
       ELSE monPc' = "loop" /\ monRet' = monRet
    /\ hwOut' = <<>>
    /\ ret' = <<>>
    /\ UNCHANGED <<picar, max_speed, current_pose, stopPc, navEstopCalled,
                   latest_proximity, is_running, autonomous_mode,
                   emergency_stop_triggered, mainPc, monRunning, monStatus,
                   battery, cpu_temp>>

\* ---- RobotSystem._handle_emergency_stop, run by the monitoring thread ----

\* line 126
EsSetFlag ==
    /\ ProcessAlive
    /\ monPc = "es_flag"
    /\ emergency_stop_triggered' = TRUE
    /\ monPc' = "es_auto"
    /\ hwOut' = <<>>
    /\ ret' = <<>>
    /\ UNCHANGED <<picar, max_speed, current_pose, stopPc, navEstopCalled,
                   latest_proximity, is_running, autonomous_mode, mainPc,
                   monRunning, monRet, monStatus, battery, cpu_temp>>

\* line 127
EsClearAutonomous ==
    /\ ProcessAlive
    /\ monPc = "es_auto"
    /\ autonomous_mode' = FALSE
    /\ monPc' = "es_stop"
    /\ hwOut' = <<>>
    /\ ret' = <<>>
    /\ UNCHANGED <<picar, max_speed, current_pose, stopPc, navEstopCalled,
                   latest_proximity, is_running, emergency_stop_triggered,
                   mainPc, monRunning, monRet, monStatus, battery, cpu_temp>>

\* line 131: self.nav.emergency_stop(), the stop call
EsNavStop(ok) ==
    /\ ProcessAlive
    /\ monPc = "es_stop"
    /\ NavStopBegin("monitor", "emergency_stop", ok)
    /\ monPc' = "es_angle"
    /\ UNCHANGED <<is_running, autonomous_mode, emergency_stop_triggered, mainPc,
                   monRunning, monRet, monStatus, battery, cpu_temp>>

\* line 131: self.nav.emergency_stop(), the zero-angle call and the return
EsNavAngle(ok) ==
    /\ ProcessAlive
    /\ monPc = "es_angle"
    /\ NavStopEnd("monitor", ok)
    /\ monPc' = "es_status"
    /\ UNCHANGED <<is_running, autonomous_mode, emergency_stop_triggered, mainPc,
                   monRunning, monRet, monStatus, battery, cpu_temp>>

\* lines 135-139: a fresh status; when it is critical, shutdown() (lines
\* 367-387): is_running and the monitor's is_running are cleared, the monitor
\* thread's join of itself raises RuntimeError, which line 383 catches, and
\* sys.exit(0) raises SystemExit, which no handler on the monitoring thread's
\* stack catches, so the thread ends.  Otherwise the callback returns.
EsStatus ==
    /\ ProcessAlive
    /\ monPc = "es_status"
    /\ LET current_status == CollectSystemMetrics
       IN IF \/ current_status.battery_voltage <= BATTERY_CRITICAL_VOLTAGE
             \/ current_status.cpu_temperature >= CPU_TEMP_CRITICAL
          THEN /\ is_running' = FALSE
               /\ monRunning' = FALSE
               /\ monPc' = "dead"
          ELSE /\ monPc' = monRet
               /\ UNCHANGED <<is_running, monRunning>>
    /\ hwOut' = <<>>
    /\ ret' = <<>>
    /\ UNCHANGED <<picar, max_speed, current_pose, stopPc, navEstopCalled,
                   latest_proximity, autonomous_mode, emergency_stop_triggered,
                   mainPc, monRet, monStatus, battery, cpu_temp>>

\* ---- the main thread: RobotSystem._main_loop, lines 218-244 ----

\* line 218, and lines 223-225 when a sensor update is due: _update_sensors
\* calls self.sensors.read_proximity(), which SensorModule does not define;
\* the AttributeError is caught at line 306 and nothing else happens.  When
\* is_running is False the loop, start() and the process end.
MainLoopTop ==
    /\ mainPc = "loop"
    /\ mainPc' = IF is_running THEN "status" ELSE "exited"
    /\ hwOut' = <<>>
    /\ ret' = <<>>
    /\ UNCHANGED <<picar, max_speed, current_pose, stopPc, navEstopCalled,
                   latest_proximity, is_running, autonomous_mode,
                   emergency_stop_triggered, monRunning, monPc, monRet,
                   monStatus, battery, cpu_temp>>

\* _check_safe_to_continue, lines 256-265
CheckSafeToContinue(status) ==
    /\ ~emergency_stop_triggered
    /\ ~(status.battery_voltage <= BATTERY_WARNING_VOLTAGE)
    /\ ~(status.cpu_temperature >= CPU_TEMP_WARNING)

\* lines 242-244: an exception raised inside the loop body is logged and the
\* loop goes on with its next iteration
MainLoopExcept_Propagates == "exited"
MainLoopExcept == "loop"

\* lines 228-233: the status check, when one is due.  get_current_status
\* re-raises what collecting the metrics raised (system_monitor.py, lines
\* 131-133); the exception leaves the loop body at line 229.  Otherwise
\* _check_safe_to_continue is called with the status, and line 232 clears
\* autonomous_mode when it returns False.
MainStatusCheck(due, raised) ==
    /\ mainPc = "status"
    /\ raised => due
    /\ LET status == CollectSystemMetrics
           safe == CheckSafeToContinue(status)
       IN  /\ autonomous_mode' = IF due /\ ~raised /\ ~safe
                                 THEN FALSE
                                 ELSE autonomous_mode
           /\ ret' = IF raised THEN Returned("get_current_status", <<>>, "Exception")
                     ELSE IF due THEN Returned("_check_safe_to_continue", <<status>>, Bool(safe))
                     ELSE <<>>
    /\ mainPc' = IF raised THEN MainLoopExcept ELSE "check"
    /\ hwOut' = <<>>
    /\ UNCHANGED <<picar, max_speed, current_pose, stopPc, navEstopCalled,
                   latest_proximity, is_running, emergency_stop_triggered,
                   monRunning, monPc, monRet, monStatus, battery, cpu_temp>>

\* line 236: the test that guards _autonomous_update
MainLoopGuard_NoEmergencyTest == autonomous_mode
MainLoopGuard_NoModeTest == ~emergency_stop_triggered
MainLoopGuard == autonomous_mode /\ ~emergency_stop_triggered

\* lines 236-237: the test, and the call of _autonomous_update when it holds;
\* otherwise the sleep of line 240
MainCheckAutonomous ==
    /\ mainPc = "check"
    /\ mainPc' = IF MainLoopGuard THEN "auto" ELSE "loop"
    /\ hwOut' = <<>>
    /\ ret' = <<>>
    /\ UNCHANGED <<picar, max_speed, current_pose, stopPc, navEstopCalled,
                   latest_proximity, is_running, autonomous_mode,
                   emergency_stop_triggered, monRunning, monPc, monRet,
                   monStatus, battery, cpu_temp>>

\* _autonomous_update, lines 318-335: self.nav.find_nearest_frontier is not
\* defined, the AttributeError is caught at line 334 and the update ends
\* without navigate_to_point having been reached; then the sleep of line 240
MainAutonomousUpdate ==
    /\ mainPc = "auto"
    /\ NavMissingMethod("main", "find_nearest_frontier", <<>>)
    /\ mainPc' = "loop"
    /\ UNCHANGED <<is_running, autonomous_mode, emergency_stop_triggered,
                   monRunning, monPc, monRet, monStatus, battery, cpu_temp>>

\* _handle_shutdown, lines 351-352, on SIGINT or SIGTERM, which Python runs
\* on the main thread between two bytecodes: shutdown() clears is_running,
\* stops the monitor, fails at self.sensors.release() (not defined; caught
\* at line 383) and raises SystemExit, which ends the main thread.
MainSignal ==
    /\ ProcessAlive
    /\ is_running' = FALSE
    /\ monRunning' = FALSE
    /\ mainPc' = "exited"
    /\ hwOut' = <<>>
    /\ ret' = <<>>
    /\ UNCHANGED <<picar, max_speed, current_pose, stopPc, navEstopCalled,
                   latest_proximity, autonomous_mode, emergency_stop_triggered,
                   monPc, monRet, monStatus, battery, cpu_temp>>

\* toggle_autonomous_mode, lines 337-341, called from outside the loop
ToggleAutonomousMode ==
    /\ ProcessAlive
    /\ autonomous_mode' = ~autonomous_mode
    /\ hwOut' = <<>>
    /\ ret' = <<>>
    /\ UNCHANGED <<picar, max_speed, current_pose, stopPc, navEstopCalled,
                   latest_proximity, is_running, emergency_stop_triggered,
                   mainPc, monRunning, monPc, monRet, monStatus, battery,
                   cpu_temp>>

\* ---- the voice thread: VoiceCommandHandler._process_command ----

\* _handle_stop, lines 173-176: self._nav.stop(), in its two hardware calls
VoiceStopBegin(ok) ==
    /\ ProcessAlive
    /\ NavStopBegin("voice", "stop", ok)
    /\ UNCHANGED sysVars
VoiceStopEnd(ok) ==
    /\ ProcessAlive
    /\ NavStopEnd("voice", ok)
    /\ UNCHANGED sysVars

\* _handle_move, lines 180-198, on "move forward" / "go forward": the
\* argument self._nav._max_speed/2 is evaluated before move_forward is
\* called; the attribute is max_speed, so AttributeError is raised and caught
\* at line 196 and move_forward is never called
VoiceMoveForward(ok) ==
    /\ ProcessAlive
    /\ IF NavHasAttr("_max_speed")
       THEN NavMoveForward("voice", <<max_speed \div 2>>, ok)
       ELSE /\ ok
            /\ Idle("voice")
            /\ hwOut' = <<>>
            /\ ret' = Returned("_handle_move", <<>>, "False")
            /\ UNCHANGED <<picar, max_speed, current_pose, stopPc,
                           navEstopCalled, latest_proximity>>
    /\ UNCHANGED sysVars

\* _handle_turn (self._nav.turn), _handle_explore
\* (self._nav.find_nearest_frontier) and _handle_status (self._nav.get_pose),
\* lines 200-247: each calls a method the controller does not define inside
\* a try whose handler returns False
VoiceMissing(op) ==
    /\ ProcessAlive
    /\ NavMissingMethod("voice", op, <<>>)
    /\ UNCHANGED sysVars

-----------------------------------------------------------------------------
(* OccupancyGrid (mapping_module.py)                                        *)
(*                                                                          *)
(* A cell holds a numpy float16.  Every float16 is a multiple of 2^-24, and *)
(* the model holds a cell as that multiple: 8388608 is 0.5, 0 is 0.0 and    *)
(* 16777216 would be 1.0.                                                   *)

\* the grid of the model: OccupancyGrid(GridWidthCm, GridHeightCm, resolution_cm)
GridWidthCm == 60
GridHeightCm == 40
resolution_cm == 10

\* 1.0 and the 0.5 of line 50, in units of 2^-24
One == 16777216
Half == 8388608
\* float16(0.1) = 0.0999755859375 and float16(0.3) = 0.300048828125, the
\* operands of the float16 comparisons of lines 193, 194 and 236
UnknownBand == 1677312
FreeBelow == 5033984

\* the quotient rounded down instead of up
CeilDiv_Floor(a, b) == IF b > 0 THEN a \div b ELSE (0 - a) \div (0 - b)

\* lines 45-46: int(np.ceil(width_cm / resolution_cm)), b # 0
CeilDiv(a, b) ==
    IF b > 0 THEN (a + b - 1) \div b ELSE ((0 - a) + (0 - b) - 1) \div (0 - b)
width_cells == CeilDiv(GridWidthCm, resolution_cm)
height_cells == CeilDiv(GridHeightCm, resolution_cm)

Cells == (0 .. width_cells - 1) \X (0 .. height_cells - 1)

\* line 50: np.full((height_cells, width_cells), 0.5, dtype=np.float16)
FreshGrid == [c \in Cells |-> Half]

\* Lines 178-184 in float16 arithmetic, each numpy operation rounding its
\* result to float16: <<p, q, r>> says that a cell holding p holds q after
\* an update with is_occupied=False and r after one with is_occupied=True.
\* The rows are all the values a cell can come to hold from 0.5.  exp
\* overflows float16 from the 28th free update of a cell on, which gives
\* 1/(1+inf) = 0.0, and log(0/(1-0)) = -inf keeps the cell there.
F16Table == <<
    <<0, 0, 0>>, <<261, 0, 389>>, <<263, 0, 392>>, <<287, 0, 427>>,
    <<289, 0, 430>>, <<291, 0, 434>>, <<294, 0, 437>>, <<296, 0, 441>>,
    <<303, 0, 451>>, <<310, 0, 462>>, <<315, 0, 469>>, <<318, 0, 473>>,
    <<328, 0, 488>>, <<349, 0, 519>>, <<351, 0, 524>>, <<354, 0, 528>>,
    <<389, 261, 579>>, <<392, 263, 584>>, <<427, 287, 636>>,
    <<430, 289, 641>>, <<434, 291, 646>>, <<437, 294, 652>>,
    <<441, 296, 657>>, <<451, 303, 672>>, <<462, 310, 688>>,
    <<469, 315, 699>>, <<473, 318, 704>>, <<488, 328, 727>>,
    <<519, 349, 774>>, <<524, 351, 780>>, <<528, 354, 786>>,
    <<579, 389, 863>>, <<584, 392, 870>>, <<636, 427, 948>>,
    <<641, 430, 955>>, <<646, 434, 963>>, <<652, 437, 970>>,
    <<657, 441, 978>>, <<672, 451, 1002>>, <<688, 462, 1025>>,
    <<699, 469, 1041>>, <<704, 473, 1049>>, <<727, 488, 1083>>,
    <<774, 519, 1152>>, <<780, 524, 1161>>, <<786, 528, 1170>>,
    <<863, 579, 1286>>, <<870, 584, 1295>>, <<948, 636, 1412>>,
    <<955, 641, 1423>>, <<963, 646, 1434>>, <<970, 652, 1445>>,
    <<978, 657, 1456>>, <<1002, 672, 1492>>, <<1025, 688, 1526>>,
    <<1041, 699, 1551>>, <<1049, 704, 1563>>, <<1083, 727, 1612>>,
    <<1152, 774, 1716>>, <<1161, 780, 1730>>, <<1170, 786, 1743>>,
    <<1286, 863, 1915>>, <<1295, 870, 1929>>, <<1412, 948, 2104>>,
    <<1423, 955, 2120>>, <<1434, 963, 2136>>, <<1445, 970, 2154>>,
    <<1456, 978, 2170>>, <<1492, 1002, 2222>>, <<1526, 1025, 2274>>,
    <<1551, 1041, 2310>>, <<1563, 1049, 2328>>, <<1612, 1083, 2402>>,
    <<1716, 1152, 2556>>, <<1730, 1161, 2576>>, <<1743, 1170, 2598>>,
    <<1915, 1286, 2852>>, <<1929, 1295, 2874>>, <<2104, 1412, 3132>>,
    <<2120, 1423, 3156>>, <<2136, 1434, 3182>>, <<2154, 1445, 3206>>,
    <<2170, 1456, 3232>>, <<2222, 1492, 3308>>, <<2274, 1526, 3388>>,
    <<2310, 1551, 3440>>, <<2328, 1563, 3466>>, <<2402, 1612, 3578>>,
    <<2556, 1716, 3810>>, <<2576, 1730, 3838>>, <<2598, 1743, 3870>>,
    <<2852, 1915, 4244>>, <<2874, 1929, 4280>>, <<3132, 2104, 4664>>,
    <<3156, 2120, 4704>>, <<3182, 2136, 4740>>, <<3206, 2154, 4776>>,
    <<3232, 2170, 4808>>, <<3308, 2222, 4928>>, <<3388, 2274, 5040>>,
    <<3440, 2310, 5120>>, <<3466, 2328, 5164>>, <<3578, 2402, 5328>>,
    <<3810, 2556, 5668>>, <<3838, 2576, 5716>>, <<3870, 2598, 5760>>,
    <<4244, 2852, 6328>>, <<4280, 2874, 6376>>, <<4664, 3132, 6944>>,
    <<4704, 3156, 7004>>, <<4740, 3182, 7060>>, <<4776, 3206, 7108>>,
    <<4808, 3232, 7168>>, <<4928, 3308, 7332>>, <<5040, 3388, 7516>>,
    <<5120, 3440, 7628>>, <<5164, 3466, 7696>>, <<5328, 3578, 7928>>,
    <<5668, 3810, 8440>>, <<5692, 3810, 8480>>, <<5716, 3838, 8512>>,
    <<5760, 3870, 8576>>, <<5784, 3870, 8616>>, <<6328, 4244, 9424>>,
    <<6356, 4244, 9456>>, <<6376, 4280, 9496>>, <<6404, 4280, 9536>>,
    <<6944, 4664, 10344>>, <<6980, 4664, 10392>>, <<7004, 4704, 10424>>,
    <<7024, 4704, 10464>>, <<7060, 4740, 10504>>, <<7084, 4740, 10552>>,
    <<7108, 4776, 10592>>, <<7144, 4776, 10632>>, <<7168, 4808, 10672>>,
    <<7196, 4808, 10712>>, <<7332, 4928, 10928>>, <<7372, 4928, 10976>>,
    <<7516, 5040, 11184>>, <<7544, 5040, 11232>>, <<7628, 5120, 11360>>,
    <<7652, 5120, 11408>>, <<7696, 5164, 11456>>, <<7928, 5328, 11816>>,
    <<8440, 5668, 12576>>, <<8480, 5692, 12624>>, <<8512, 5716, 12672>>,
    <<8576, 5760, 12776>>, <<8616, 5784, 12824>>, <<9424, 6328, 14024>>,
    <<9456, 6356, 14088>>, <<9496, 6376, 14136>>, <<9536, 6404, 14192>>,
    <<10344, 6944, 15408>>, <<10392, 6980, 15464>>, <<10424, 7004, 15520>>,
    <<10464, 7024, 15592>>, <<10504, 7060, 15648>>, <<10552, 7084, 15712>>,
    <<10592, 7108, 15768>>, <<10632, 7144, 15824>>, <<10672, 7168, 15888>>,
    <<10712, 7196, 15944>>, <<10928, 7332, 16272>>, <<10976, 7372, 16336>>,
    <<11184, 7516, 16656>>, <<11232, 7544, 16720>>, <<11360, 7628, 16928>>,
    <<11408, 7652, 16976>>, <<11456, 7696, 17056>>, <<11816, 7928, 17584>>,
    <<12576, 8440, 18720>>, <<12624, 8480, 18800>>, <<12672, 8512, 18880>>,
    <<12776, 8576, 19024>>, <<12824, 8616, 19104>>, <<14024, 9424, 20880>>,
    <<14088, 9456, 20976>>, <<14136, 9496, 21056>>, <<14192, 9536, 21136>>,
    <<15408, 10344, 22928>>, <<15464, 10392, 23024>>, <<15520, 10424, 23104>>,
    <<15592, 10464, 23200>>, <<15648, 10504, 23296>>, <<15712, 10552, 23376>>,
    <<15768, 10592, 23488>>, <<15824, 10632, 23568>>, <<15888, 10672, 23664>>,
    <<15944, 10712, 23744>>, <<16272, 10928, 24224>>, <<16336, 10976, 24320>>,
    <<16656, 11184, 24800>>, <<16720, 11232, 24896>>, <<16928, 11360, 25184>>,
    <<16976, 11408, 25280>>, <<17056, 11456, 25376>>, <<17584, 11816, 26192>>,
    <<18720, 12576, 27872>>, <<18800, 12624, 27984>>, <<18880, 12672, 28096>>,
    <<19024, 12776, 28320>>, <<19104, 12824, 28416>>, <<20880, 14024, 31104>>,
    <<20976, 14088, 31216>>, <<21056, 14136, 31328>>, <<21136, 14192, 31440>>,
    <<22928, 15408, 34144>>, <<23024, 15464, 34272>>, <<23104, 15520, 34400>>,
    <<23200, 15592, 34528>>, <<23296, 15648, 34688>>, <<23376, 15712, 34816>>,
    <<23488, 15768, 34944>>, <<23568, 15824, 35072>>, <<23664, 15888, 35232>>,
    <<23744, 15944, 35360>>, <<24224, 16272, 36064>>, <<24320, 16336, 36192>>,
    <<24800, 16656, 36928>>, <<24896, 16720, 37056>>, <<25184, 16928, 37504>>,
    <<25280, 16976, 37632>>, <<25376, 17056, 37792>>, <<26192, 17584, 38976>>,
    <<27872, 18720, 41472>>, <<27984, 18800, 41664>>, <<28096, 18880, 41824>>,
    <<28320, 19024, 42112>>, <<28416, 19104, 42272>>, <<31104, 20880, 46240>>,
    <<31216, 20976, 46432>>, <<31328, 21056, 46624>>, <<31440, 21136, 46784>>,
    <<34144, 22928, 50816>>, <<34272, 23024, 51008>>, <<34400, 23104, 51200>>,
    <<34528, 23200, 51392>>, <<34688, 23296, 51584>>, <<34816, 23376, 51776>>,
    <<34944, 23488, 51968>>, <<35072, 23568, 52192>>, <<35232, 23664, 52384>>,
    <<35360, 23744, 52608>>, <<36064, 24224, 53632>>, <<36192, 24320, 53856>>,
    <<36928, 24800, 54912>>, <<37056, 24896, 55136>>, <<37504, 25184, 55776>>,
    <<37632, 25280, 55968>>, <<37792, 25376, 56192>>, <<38976, 26192, 58016>>,
    <<41472, 27872, 61728>>, <<41664, 27984, 61952>>, <<41824, 28096, 62208>>,
    <<42112, 28320, 62656>>, <<42272, 28416, 62944>>, <<46240, 31104, 68800>>,
    <<46432, 31216, 69056>>, <<46624, 31328, 69376>>, <<46784, 31440, 69632>>,
    <<50816, 34144, 75584>>, <<51008, 34272, 75840>>, <<51200, 34400, 76160>>,
    <<51392, 34528, 76416>>, <<51584, 34688, 76736>>, <<51776, 34816, 77056>>,
    <<51968, 34944, 77312>>, <<52192, 35072, 77632>>, <<52384, 35232, 77952>>,
    <<52608, 35360, 78272>>, <<53632, 36064, 79808>>, <<53856, 36192, 80064>>,
    <<54912, 36928, 81664>>, <<55136, 37056, 81984>>, <<55776, 37504, 82944>>,
    <<55968, 37632, 83264>>, <<56192, 37792, 83584>>, <<58016, 38976, 86208>>,
    <<61728, 41472, 91712>>, <<61952, 41664, 92096>>, <<62208, 41824, 92480>>,
    <<62656, 42112, 93184>>, <<62944, 42272, 93504>>,
    <<68800, 46240, 102272>>, <<69056, 46432, 102720>>,
    <<69376, 46624, 103104>>, <<69632, 46784, 103488>>,
    <<75584, 50816, 112320>>, <<75840, 51008, 112704>>,
    <<76160, 51200, 113152>>, <<76416, 51392, 113664>>,
    <<76736, 51584, 114048>>, <<77056, 51776, 114496>>,
    <<77312, 51968, 114944>>, <<77632, 52192, 115392>>,
    <<77952, 52384, 115776>>, <<78272, 52608, 116288>>,
    <<79808, 53632, 118592>>, <<80064, 53856, 118976>>,
    <<81664, 54912, 121344>>, <<81984, 55136, 121792>>,
    <<82944, 55776, 123264>>, <<83264, 55968, 123712>>,
    <<83584, 56192, 124160>>, <<86208, 58016, 128064>>,
    <<91712, 61728, 136320>>, <<92096, 61952, 136832>>,
    <<92480, 62208, 137344>>, <<93184, 62656, 138496>>,
    <<93504, 62944, 138880>>, <<102272, 68800, 151936>>,
    <<102720, 69056, 152576>>, <<103104, 69376, 153088>>,
    <<103488, 69632, 153600>>, <<112320, 75584, 166784>>,
    <<112704, 75840, 167296>>, <<113152, 76160, 167936>>,
    <<113664, 76416, 168576>>, <<114048, 76736, 169216>>,
    <<114496, 77056, 169984>>, <<114944, 77312, 170624>>,
    <<115392, 77632, 171264>>, <<115776, 77952, 171904>>,
    <<116288, 78272, 172672>>, <<118592, 79808, 176000>>,
    <<118976, 80064, 176640>>, <<121344, 81664, 180096>>,
    <<121792, 81984, 180736>>, <<123264, 82944, 182912>>,
    <<123712, 83264, 183552>>, <<124160, 83584, 184320>>,
    <<128064, 86208, 190080>>, <<136320, 91712, 202240>>,
    <<136832, 92096, 203008>>, <<137344, 92480, 203776>>,
    <<138496, 93184, 205440>>, <<138880, 93504, 206208>>,
    <<151936, 102272, 225152>>, <<152576, 102720, 226176>>,
    <<153088, 103104, 227072>>, <<153600, 103488, 227840>>,
    <<166784, 112320, 247168>>, <<167296, 112704, 248064>>,
    <<167936, 113152, 248960>>, <<168576, 113664, 249984>>,
    <<169216, 114048, 250880>>, <<169984, 114496, 251776>>,
    <<170624, 114944, 252800>>, <<171264, 115392, 253952>>,
    <<171904, 115776, 254976>>, <<172672, 116288, 255872>>,
    <<176000, 118592, 260608>>, <<176640, 118976, 261632>>,
    <<180096, 121344, 266752>>, <<180736, 121792, 267776>>,
    <<182912, 123264, 271104>>, <<183552, 123712, 272128>>,
    <<184320, 124160, 273152>>, <<190080, 128064, 281600>>,
    <<202240, 136320, 299520>>, <<203008, 136832, 300544>>,
    <<203776, 137344, 302336>>, <<205440, 138496, 304640>>,
    <<206208, 138880, 305920>>, <<225152, 151936, 334080>>,
    <<226176, 152576, 335360>>, <<227072, 153088, 336640>>,
    <<227840, 153600, 337920>>, <<247168, 166784, 366336>>,
    <<248064, 167296, 367360>>, <<248960, 167936, 368896>>,
    <<249984, 168576, 370176>>, <<250880, 169216, 371712>>,
    <<251776, 169984, 372992>>, <<252800, 170624, 374528>>,
    <<253952, 171264, 376064>>, <<254976, 171904, 377600>>,
    <<255872, 172672, 378880>>, <<260608, 176000, 386304>>,
    <<261632, 176640, 387584>>, <<266752, 180096, 395008>>,
    <<267776, 180736, 396800>>, <<271104, 182912, 401152>>,
    <<272128, 183552, 402688>>, <<273152, 184320, 404224>>,
    <<281600, 190080, 416768>>, <<299520, 202240, 442880>>,
    <<300544, 203008, 444672>>, <<301824, 203776, 446208>>,
    <<302336, 203776, 447488>>, <<304128, 205440, 449536>>,
    <<304640, 205440, 450816>>, <<305152, 206208, 451584>>,
    <<305920, 206208, 452352>>, <<333568, 225152, 493568>>,
    <<334080, 225152, 493568>>, <<335360, 226176, 495616>>,
    <<336640, 227072, 497664>>, <<337152, 227840, 498432>>,
    <<337920, 227840, 499456>>, <<365568, 247168, 539648>>,
    <<366336, 247168, 540672>>, <<366592, 248064, 541696>>,
    <<367360, 248064, 542720>>, <<368128, 248960, 543744>>,
    <<368896, 248960, 544768>>, <<369664, 249984, 545792>>,
    <<370176, 249984, 546816>>, <<370944, 250880, 547840>>,
    <<371712, 250880, 548864>>, <<372480, 251776, 549888>>,
    <<372992, 251776, 550912>>, <<374528, 252800, 552960>>,
    <<376064, 253952, 555008>>, <<377600, 254976, 557056>>,
    <<378112, 255872, 558592>>, <<378880, 255872, 559104>>,
    <<385280, 260608, 568832>>, <<386304, 260608, 569856>>,
    <<387072, 261632, 571392>>, <<387584, 261632, 571904>>,
    <<394496, 266752, 582144>>, <<395008, 266752, 583168>>,
    <<396032, 267776, 584192>>, <<396800, 267776, 585216>>,
    <<400384, 271104, 590848>>, <<401152, 271104, 591872>>,
    <<402176, 272128, 592896>>, <<402688, 272128, 594432>>,
    <<403712, 273152, 595456>>, <<404224, 273152, 595968>>,
    <<416768, 281600, 614400>>, <<442880, 299520, 652800>>,
    <<444672, 300544, 655360>>, <<445440, 301824, 656384>>,
    <<446208, 301824, 657408>>, <<447488, 302336, 658944>>,
    <<449536, 304128, 662528>>, <<450816, 304640, 663552>>,
    <<451584, 305152, 665088>>, <<452352, 305920, 666112>>,
    <<492544, 333568, 724992>>, <<493568, 334080, 726016>>,
    <<495616, 335360, 729088>>, <<497664, 336640, 731648>>,
    <<498432, 337152, 733184>>, <<499456, 337920, 734208>>,
    <<539648, 365568, 792576>>, <<540672, 366336, 794112>>,
    <<541696, 366592, 796160>>, <<542720, 367360, 797184>>,
    <<543744, 368128, 798720>>, <<544768, 368896, 800256>>,
    <<545792, 369664, 801792>>, <<546816, 370176, 803328>>,
    <<547840, 370944, 804864>>, <<548864, 371712, 805888>>,
    <<549888, 372480, 807424>>, <<550912, 372992, 808960>>,
    <<552960, 374528, 812032>>, <<555008, 376064, 815104>>,
    <<557056, 377600, 818176>>, <<558592, 378112, 819712>>,
    <<559104, 378880, 821760>>, <<568832, 385280, 835072>>,
    <<569856, 386304, 837120>>, <<571392, 387072, 838144>>,
    <<571904, 387584, 839680>>, <<582144, 394496, 853504>>,
    <<583168, 395008, 855552>>, <<584192, 396032, 857088>>,
    <<585216, 396800, 858112>>, <<590848, 400384, 866816>>,
    <<591872, 401152, 867840>>, <<592896, 402176, 869888>>,
    <<594432, 402688, 871424>>, <<595456, 403712, 872960>>,
    <<595968, 404224, 874496>>, <<614400, 416768, 900608>>,
    <<652800, 442880, 955904>>, <<655360, 444672, 959488>>,
    <<656384, 445440, 961024>>, <<657408, 446208, 963072>>,
    <<658944, 447488, 964608>>, <<662528, 449536, 969728>>,
    <<663552, 450816, 971776>>, <<665088, 451584, 973312>>,
    <<666112, 452352, 975360>>, <<724992, 492544, 1059840>>,
    <<726016, 493568, 1060864>>, <<729088, 495616, 1064960>>,
    <<731648, 497664, 1069056>>, <<733184, 498432, 1071104>>,
    <<734208, 499456, 1073152>>, <<792576, 539648, 1156096>>,
    <<794112, 540672, 1158144>>, <<796160, 541696, 1160192>>,
    <<797184, 542720, 1162240>>, <<798720, 543744, 1164288>>,
    <<800256, 544768, 1166336>>, <<801792, 545792, 1169408>>,
    <<803328, 546816, 1170432>>, <<804864, 547840, 1172480>>,
    <<805888, 548864, 1175552>>, <<807424, 549888, 1177600>>,
    <<808960, 550912, 1179648>>, <<812032, 552960, 1183744>>,
    <<815104, 555008, 1188864>>, <<818176, 557056, 1191936>>,
    <<819712, 558592, 1193984>>, <<821760, 559104, 1197056>>,
    <<835072, 568832, 1216512>>, <<837120, 569856, 1218560>>,
    <<838144, 571392, 1220608>>, <<839680, 571904, 1222656>>,
    <<853504, 582144, 1243136>>, <<855552, 583168, 1245184>>,
    <<857088, 584192, 1248256>>, <<858112, 585216, 1250304>>,
    <<866816, 590848, 1260544>>, <<867840, 591872, 1263616>>,
    <<869888, 592896, 1265664>>, <<871424, 594432, 1268736>>,
    <<872960, 595456, 1270784>>, <<874496, 595968, 1272832>>,
    <<900608, 614400, 1310720>>, <<955904, 652800, 1387520>>,
    <<959488, 655360, 1392640>>, <<961024, 656384, 1394688>>,
    <<963072, 657408, 1396736>>, <<964608, 658944, 1399808>>,
    <<969728, 662528, 1406976>>, <<971776, 663552, 1410048>>,
    <<973312, 665088, 1413120>>, <<975360, 666112, 1415168>>,
    <<1059840, 724992, 1532928>>, <<1060864, 726016, 1536000>>,
    <<1064960, 729088, 1541120>>, <<1069056, 731648, 1547264>>,
    <<1071104, 733184, 1549312>>, <<1073152, 734208, 1552384>>,
    <<1156096, 792576, 1668096>>, <<1158144, 794112, 1671168>>,
    <<1160192, 796160, 1675264>>, <<1162240, 797184, 1677312>>,
    <<1164288, 798720, 1680384>>, <<1166336, 800256, 1683456>>,
    <<1169408, 801792, 1686528>>, <<1170432, 803328, 1689600>>,
    <<1172480, 804864, 1692672>>, <<1175552, 805888, 1694720>>,
    <<1177600, 807424, 1698816>>, <<1179648, 808960, 1701888>>,
    <<1183744, 812032, 1707008>>, <<1188864, 815104, 1714176>>,
    <<1191936, 818176, 1719296>>, <<1193984, 819712, 1722368>>,
    <<1197056, 821760, 1724416>>, <<1216512, 835072, 1753088>>,
    <<1218560, 837120, 1756160>>, <<1220608, 838144, 1759232>>,
    <<1222656, 839680, 1761280>>, <<1243136, 853504, 1789952>>,
    <<1245184, 855552, 1793024>>, <<1248256, 857088, 1795072>>,
    <<1250304, 858112, 1800192>>, <<1260544, 866816, 1815552>>,
    <<1263616, 867840, 1818624>>, <<1265664, 869888, 1821696>>,
    <<1268736, 871424, 1824768>>, <<1270784, 872960, 1827840>>,
    <<1272832, 874496, 1830912>>, <<1310720, 900608, 1884160>>,
    <<1387520, 955904, 1988608>>, <<1392640, 959488, 1995776>>,
    <<1394688, 961024, 1999872>>, <<1396736, 961024, 1999872>>,
    <<1399808, 964608, 2007040>>, <<1406976, 969728, 2018304>>,
    <<1410048, 971776, 2020352>>, <<1413120, 973312, 2024448>>,
    <<1415168, 975360, 2027520>>, <<1532928, 1059840, 2189312>>,
    <<1536000, 1060864, 2193408>>, <<1541120, 1064960, 2199552>>,
    <<1547264, 1069056, 2207744>>, <<1549312, 1071104, 2211840>>,
    <<1552384, 1073152, 2215936>>, <<1668096, 1156096, 2373632>>,
    <<1671168, 1158144, 2377728>>, <<1675264, 1160192, 2381824>>,
    <<1677312, 1162240, 2385920>>, <<1680384, 1164288, 2390016>>,
    <<1683456, 1166336, 2394112>>, <<1686528, 1169408, 2398208>>,
    <<1689600, 1170432, 2402304>>, <<1692672, 1172480, 2406400>>,
    <<1694720, 1175552, 2410496>>, <<1698816, 1177600, 2414592>>,
    <<1701888, 1179648, 2418688>>, <<1707008, 1183744, 2426880>>,
    <<1714176, 1188864, 2435072>>, <<1719296, 1191936, 2443264>>,
    <<1722368, 1193984, 2447360>>, <<1724416, 1193984, 2447360>>,
    <<1753088, 1216512, 2488320>>, <<1756160, 1218560, 2492416>>,
    <<1759232, 1220608, 2496512>>, <<1761280, 1222656, 2500608>>,
    <<1789952, 1243136, 2537472>>, <<1793024, 1245184, 2543616>>,
    <<1795072, 1248256, 2545664>>, <<1800192, 1250304, 2549760>>,
    <<1815552, 1260544, 2572288>>, <<1818624, 1263616, 2576384>>,
    <<1821696, 1265664, 2580480>>, <<1824768, 1268736, 2584576>>,
    <<1827840, 1270784, 2588672>>, <<1830912, 1272832, 2592768>>,
    <<1884160, 1310720, 2662400>>, <<1988608, 1387520, 2805760>>,
    <<1995776, 1392640, 2813952>>, <<1999872, 1394688, 2820096>>,
    <<2007040, 1399808, 2828288>>, <<2018304, 1406976, 2842624>>,
    <<2020352, 1410048, 2846720>>, <<2024448, 1413120, 2852864>>,
    <<2027520, 1415168, 2854912>>, <<2189312, 1532928, 3069952>>,
    <<2193408, 1536000, 3074048>>, <<2197504, 1541120, 3080192>>,
    <<2199552, 1541120, 3080192>>, <<2207744, 1547264, 3094528>>,
    <<2211840, 1549312, 3098624>>, <<2215936, 1552384, 3104768>>,
    <<2373632, 1668096, 3311616>>, <<2377728, 1671168, 3315712>>,
    <<2381824, 1675264, 3321856>>, <<2385920, 1677312, 3330048>>,
    <<2390016, 1680384, 3334144>>, <<2394112, 1683456, 3334144>>,
    <<2398208, 1686528, 3344384>>, <<2402304, 1689600, 3350528>>,
    <<2406400, 1692672, 3354624>>, <<2410496, 1694720, 3360768>>,
    <<2414592, 1698816, 3366912>>, <<2418688, 1701888, 3371008>>,
    <<2426880, 1707008, 3381248>>, <<2435072, 1714176, 3393536>>,
    <<2443264, 1719296, 3403776>>, <<2447360, 1722368, 3407872>>,
    <<2488320, 1753088, 3461120>>, <<2492416, 1756160, 3463168>>,
    <<2496512, 1759232, 3469312>>, <<2500608, 1761280, 3475456>>,
    <<2537472, 1789952, 3526656>>, <<2543616, 1795072, 3532800>>,
    <<2545664, 1795072, 3536896>>, <<2549760, 1800192, 3536896>>,
    <<2572288, 1815552, 3567616>>, <<2576384, 1818624, 3573760>>,
    <<2580480, 1821696, 3579904>>, <<2584576, 1824768, 3586048>>,
    <<2588672, 1827840, 3590144>>, <<2592768, 1830912, 3596288>>,
    <<2662400, 1884160, 3684352>>, <<2805760, 1988608, 3868672>>,
    <<2813952, 1995776, 3878912>>, <<2820096, 1999872, 3883008>>,
    <<2828288, 2007040, 3897344>>, <<2842624, 2018304, 3915776>>,
    <<2846720, 2024448, 3917824>>, <<2852864, 2024448, 3926016>>,
    <<2854912, 2027520, 3926016>>, <<3069952, 2189312, 4202496>>,
    <<3074048, 2193408, 4202496>>, <<3080192, 2197504, 4214784>>,
    <<3094528, 2207744, 4235264>>, <<3098624, 2211840, 4235264>>,
    <<3104768, 2215936, 4247552>>, <<3311616, 2373632, 4501504>>,
    <<3315712, 2377728, 4505600>>, <<3321856, 2381824, 4517888>>,
    <<3330048, 2385920, 4521984>>, <<3334144, 2390016, 4530176>>,
    <<3340288, 2398208, 4538368>>, <<3344384, 2398208, 4542464>>,
    <<3350528, 2402304, 4550656>>, <<3352576, 2406400, 4550656>>,
    <<3354624, 2406400, 4554752>>, <<3360768, 2410496, 4562944>>,
    <<3366912, 2414592, 4571136>>, <<3371008, 2418688, 4575232>>,
    <<3381248, 2426880, 4587520>>, <<3393536, 2435072, 4599808>>,
    <<3403776, 2447360, 4620288>>, <<3407872, 2447360, 4620288>>,
    <<3459072, 2488320, 4685824>>, <<3461120, 2488320, 4685824>>,
    <<3463168, 2492416, 4694016>>, <<3469312, 2496512, 4698112>>,
    <<3475456, 2500608, 4702208>>, <<3526656, 2537472, 4767744>>,
    <<3532800, 2543616, 4771840>>, <<3536896, 2545664, 4780032>>,
    <<3543040, 2549760, 4784128>>, <<3567616, 2572288, 4820992>>,
    <<3573760, 2576384, 4825088>>, <<3579904, 2580480, 4833280>>,
    <<3586048, 2588672, 4841472>>, <<3590144, 2588672, 4845568>>,
    <<3596288, 2592768, 4853760>>, <<3684352, 2662400, 4964352>>,
    <<3868672, 2805760, 5185536>>, <<3878912, 2813952, 5197824>>,
    <<3883008, 2820096, 5197824>>, <<3897344, 2828288, 5218304>>,
    <<3915776, 2842624, 5238784>>, <<3917824, 2846720, 5242880>>,
    <<3926016, 2852864, 5251072>>, <<4202496, 3069952, 5582848>>,
    <<4206592, 3074048, 5586944>>, <<4214784, 3080192, 5599232>>,
    <<4235264, 3094528, 5619712>>, <<4239360, 3098624, 5623808>>,
    <<4247552, 3104768, 5632000>>, <<4501504, 3311616, 5931008>>,
    <<4505600, 3311616, 5935104>>, <<4517888, 3321856, 5951488>>,
    <<4521984, 3330048, 5955584>>, <<4526080, 3330048, 5955584>>,
    <<4530176, 3334144, 5963776>>, <<4534272, 3340288, 5971968>>,
    <<4538368, 3340288, 5971968>>, <<4542464, 3344384, 5976064>>,
    <<4550656, 3352576, 5988352>>, <<4554752, 3354624, 5992448>>,
    <<4562944, 3360768, 6004736>>, <<4571136, 3366912, 6017024>>,
    <<4575232, 3371008, 6017024>>, <<4587520, 3381248, 6033408>>,
    <<4599808, 3393536, 6049792>>, <<4603904, 3393536, 6049792>>,
    <<4612096, 3403776, 6062080>>, <<4620288, 3407872, 6070272>>,
    <<4681728, 3459072, 6144000>>, <<4685824, 3461120, 6144000>>,
    <<4689920, 3463168, 6152192>>, <<4694016, 3463168, 6152192>>,
    <<4698112, 3469312, 6160384>>, <<4702208, 3469312, 6160384>>,
    <<4763648, 3526656, 6238208>>, <<4767744, 3526656, 6242304>>,
    <<4771840, 3532800, 6242304>>, <<4775936, 3532800, 6250496>>,
    <<4780032, 3536896, 6254592>>, <<4784128, 3543040, 6262784>>,
    <<4816896, 3567616, 6299648>>, <<4820992, 3567616, 6299648>>,
    <<4825088, 3573760, 6307840>>, <<4833280, 3579904, 6316032>>,
    <<4841472, 3586048, 6324224>>, <<4845568, 3590144, 6328320>>,
    <<4849664, 3590144, 6336512>>, <<4853760, 3596288, 6336512>>,
    <<4857856, 3596288, 6344704>>, <<4960256, 3684352, 6459392>>,
    <<4964352, 3684352, 6463488>>, <<5181440, 3868672, 6709248>>,
    <<5185536, 3868672, 6709248>>, <<5197824, 3878912, 6725632>>,
    <<5201920, 3883008, 6733824>>, <<5218304, 3897344, 6754304>>,
    <<5238784, 3915776, 6774784>>, <<5242880, 3917824, 6778880>>,
    <<5251072, 3926016, 6787072>>, <<5582848, 4202496, 7159808>>,
    <<5586944, 4206592, 7159808>>, <<5599232, 4214784, 7172096>>,
    <<5615616, 4235264, 7192576>>, <<5619712, 4235264, 7192576>>,
    <<5623808, 4235264, 7192576>>, <<5627904, 4239360, 7204864>>,
    <<5632000, 4247552, 7204864>>, <<5636096, 4247552, 7217152>>,
    <<5931008, 4501504, 7536640>>, <<5935104, 4505600, 7540736>>,
    <<5939200, 4505600, 7548928>>, <<5947392, 4517888, 7553024>>,
    <<5951488, 4517888, 7553024>>, <<5955584, 4521984, 7561216>>,
    <<5959680, 4526080, 7573504>>, <<5963776, 4530176, 7573504>>,
    <<5971968, 4534272, 7581696>>, <<5976064, 4538368, 7589888>>,
    <<5988352, 4550656, 7602176>>, <<5992448, 4554752, 7602176>>,
    <<6004736, 4562944, 7614464>>, <<6008832, 4571136, 7622656>>,
    <<6012928, 4571136, 7626752>>, <<6017024, 4575232, 7626752>>,
    <<6033408, 4587520, 7643136>>, <<6049792, 4603904, 7667712>>,
    <<6057984, 4612096, 7675904>>, <<6062080, 4612096, 7684096>>,
    <<6066176, 4612096, 7684096>>, <<6070272, 4620288, 7684096>>,
    <<6144000, 4681728, 7766016>>, <<6152192, 4689920, 7774208>>,
    <<6156288, 4698112, 7782400>>, <<6160384, 4698112, 7782400>>,
    <<6234112, 4763648, 7864320>>, <<6238208, 4767744, 7864320>>,
    <<6242304, 4771840, 7872512>>, <<6250496, 4775936, 7880704>>,
    <<6254592, 4784128, 7888896>>, <<6262784, 4784128, 7888896>>,
    <<6299648, 4816896, 7929856>>, <<6303744, 4825088, 7938048>>,
    <<6307840, 4825088, 7938048>>, <<6316032, 4833280, 7954432>>,
    <<6324224, 4841472, 7954432>>, <<6328320, 4841472, 7962624>>,
    <<6336512, 4849664, 7966720>>, <<6344704, 4857856, 7983104>>,
    <<6459392, 4960256, 8101888>>, <<6463488, 4964352, 8101888>>,
    <<6709248, 5181440, 8364032>>, <<6721536, 5185536, 8372224>>,
    <<6725632, 5197824, 8380416>>, <<6733824, 5201920, 8388608>>,
    <<6754304, 5218304, 8413184>>, <<6774784, 5238784, 8429568>>,
    <<6778880, 5242880, 8437760>>, <<6787072, 5251072, 8445952>>,
    <<7159808, 5586944, 8830976>>, <<7172096, 5599232, 8839168>>,
    <<7176192, 5599232, 8847360>>, <<7188480, 5615616, 8863744>>,
    <<7192576, 5615616, 8863744>>, <<7204864, 5627904, 8871936>>,
    <<7217152, 5636096, 8880128>>, <<7536640, 5931008, 9207808>>,
    <<7540736, 5931008, 9207808>>, <<7548928, 5939200, 9224192>>,
    <<7553024, 5947392, 9224192>>, <<7561216, 5951488, 9232384>>,
    <<7573504, 5959680, 9240576>>, <<7581696, 5971968, 9256960>>,
    <<7589888, 5976064, 9256960>>, <<7602176, 5988352, 9273344>>,
    <<7614464, 6008832, 9289728>>, <<7622656, 6012928, 9297920>>,
    <<7626752, 6017024, 9297920>>, <<7643136, 6033408, 9314304>>,
    <<7667712, 6049792, 9338880>>, <<7675904, 6057984, 9347072>>,
    <<7684096, 6066176, 9355264>>, <<7766016, 6144000, 9437184>>,
    <<7774208, 6152192, 9445376>>, <<7782400, 6156288, 9453568>>,
    <<7864320, 6234112, 9535488>>, <<7872512, 6242304, 9543680>>,
    <<7880704, 6250496, 9551872>>, <<7888896, 6262784, 9551872>>,
    <<7929856, 6299648, 9601024>>, <<7938048, 6303744, 9609216>>,
    <<7946240, 6316032, 9617408>>, <<7954432, 6316032, 9617408>>,
    <<7962624, 6324224, 9633792>>, <<7966720, 6328320, 9633792>>,
    <<7983104, 6344704, 9650176>>, <<8101888, 6459392, 9764864>>,
    <<8364032, 6709248, 10027008>>, <<8372224, 6721536, 10027008>>,
    <<8380416, 6725632, 10035200>>, <<8388608, 6733824, 10043392>>,
    <<8413184, 6754304, 10067968>>, <<8429568, 6774784, 10084352>>,
    <<8437760, 6778880, 10092544>>, <<8445952, 6787072, 10100736>>,
    <<8830976, 7159808, 10461184>>, <<8839168, 7172096, 10477568>>,
    <<8847360, 7176192, 10477568>>, <<8855552, 7188480, 10485760>>,
    <<8863744, 7192576, 10493952>>, <<8871936, 7204864, 10502144>>,
    <<8880128, 7204864, 10510336>>, <<8888320, 7217152, 10518528>>,
    <<9207808, 7536640, 10821632>>, <<9216000, 7548928, 10821632>>,
    <<9224192, 7553024, 10829824>>, <<9232384, 7561216, 10838016>>,
    <<9240576, 7573504, 10846208>>, <<9248768, 7573504, 10854400>>,
    <<9256960, 7589888, 10862592>>, <<9265152, 7589888, 10870784>>,
    <<9273344, 7602176, 10870784>>, <<9289728, 7614464, 10887168>>,
    <<9297920, 7626752, 10903552>>, <<9314304, 7643136, 10911744>>,
    <<9338880, 7667712, 10944512>>, <<9347072, 7675904, 10944512>>,
    <<9355264, 7684096, 10952704>>, <<9437184, 7766016, 11026432>>,
    <<9445376, 7774208, 11034624>>, <<9453568, 7782400, 11042816>>,
    <<9535488, 7864320, 11116544>>, <<9543680, 7872512, 11124736>>,
    <<9551872, 7880704, 11132928>>, <<9560064, 7888896, 11141120>>,
    <<9601024, 7929856, 11173888>>, <<9609216, 7938048, 11182080>>,
    <<9617408, 7946240, 11182080>>, <<9633792, 7966720, 11206656>>,
    <<9650176, 7983104, 11223040>>, <<9764864, 8101888, 11321344>>,
    <<10018816, 8364032, 11550720>>, <<10027008, 8372224, 11558912>>,
    <<10035200, 8380416, 11567104>>, <<10043392, 8388608, 11575296>>,
    <<10067968, 8413184, 11591680>>, <<10084352, 8429568, 11608064>>,
    <<10092544, 8437760, 11616256>>, <<10100736, 8445952, 11624448>>,
    <<10461184, 8830976, 11943936>>, <<10469376, 8839168, 11943936>>,
    <<10477568, 8847360, 11952128>>, <<10485760, 8855552, 11960320>>,
    <<10493952, 8863744, 11968512>>, <<10502144, 8871936, 11976704>>,
    <<10510336, 8880128, 11984896>>, <<10518528, 8888320, 11993088>>,
    <<10813440, 9207808, 12255232>>, <<10821632, 9216000, 12255232>>,
    <<10829824, 9224192, 12263424>>, <<10838016, 9232384, 12271616>>,
    <<10846208, 9240576, 12279808>>, <<10854400, 9248768, 12288000>>,
    <<10862592, 9256960, 12288000>>, <<10870784, 9265152, 12296192>>,
    <<10887168, 9289728, 12304384>>, <<10903552, 9297920, 12320768>>,
    <<10911744, 9314304, 12328960>>, <<10936320, 9338880, 12361728>>,
    <<10944512, 9347072, 12361728>>, <<10952704, 9355264, 12369920>>,
    <<11026432, 9437184, 12427264>>, <<11034624, 9445376, 12443648>>,
    <<11042816, 9453568, 12443648>>, <<11116544, 9535488, 12500992>>,
    <<11124736, 9543680, 12509184>>, <<11132928, 9551872, 12525568>>,
    <<11141120, 9560064, 12525568>>, <<11173888, 9601024, 12558336>>,
    <<11182080, 9609216, 12566528>>, <<11206656, 9633792, 12582912>>,
    <<11223040, 9650176, 12599296>>, <<11321344, 9764864, 12681216>>,
    <<11550720, 10018816, 12877824>>, <<11558912, 10027008, 12877824>>,
    <<11567104, 10035200, 12886016>>, <<11575296, 10043392, 12886016>>,
    <<11591680, 10067968, 12910592>>, <<11599872, 10067968, 12918784>>,
    <<11608064, 10084352, 12918784>>, <<11616256, 10084352, 12926976>>,
    <<11624448, 10100736, 12935168>>, <<11943936, 10461184, 13197312>>,
    <<11952128, 10469376, 13205504>>, <<11960320, 10477568, 13205504>>,
    <<11968512, 10485760, 13213696>>, <<11976704, 10502144, 13221888>>,
    <<11984896, 10510336, 13238272>>, <<11993088, 10518528, 13238272>>,
    <<12247040, 10813440, 13443072>>, <<12255232, 10821632, 13451264>>,
    <<12263424, 10829824, 13451264>>, <<12271616, 10838016, 13467648>>,
    <<12279808, 10854400, 13475840>>, <<12288000, 10862592, 13475840>>,
    <<12296192, 10870784, 13484032>>, <<12304384, 10870784, 13484032>>,
    <<12320768, 10903552, 13508608>>, <<12328960, 10911744, 13508608>>,
    <<12353536, 10936320, 13524992>>, <<12361728, 10944512, 13541376>>,
    <<12369920, 10952704, 13541376>>, <<12427264, 11026432, 13590528>>,
    <<12443648, 11042816, 13598720>>, <<12500992, 11116544, 13647872>>,
    <<12509184, 11116544, 13656064>>, <<12525568, 11141120, 13664256>>,
    <<12558336, 11173888, 13688832>>, <<12566528, 11182080, 13697024>>,
    <<12582912, 11206656, 13713408>>, <<12599296, 11223040, 13721600>>,
    <<12681216, 11321344, 13787136>>, <<12877824, 11550720, 13942784>>,
    <<12886016, 11567104, 13959168>>, <<12894208, 11575296, 13959168>>,
    <<12910592, 11599872, 13967360>>, <<12918784, 11608064, 13975552>>,
    <<12926976, 11616256, 13991936>>, <<12935168, 11624448, 13991936>>,
    <<13197312, 11943936, 14196736>>, <<13205504, 11952128, 14196736>>,
    <<13213696, 11960320, 14213120>>, <<13221888, 11968512, 14213120>>,
    <<13238272, 11993088, 14221312>>, <<13443072, 12247040, 14385152>>,
    <<13451264, 12255232, 14385152>>, <<13467648, 12279808, 14401536>>,
    <<13475840, 12288000, 14409728>>, <<13484032, 12296192, 14409728>>,
    <<13508608, 12320768, 14434304>>, <<13524992, 12353536, 14450688>>,
    <<13541376, 12369920, 14458880>>, <<13590528, 12427264, 14499840>>,
    <<13598720, 12443648, 14508032>>, <<13647872, 12500992, 14548992>>,
    <<13656064, 12509184, 14548992>>, <<13664256, 12525568, 14557184>>,
    <<13688832, 12558336, 14573568>>, <<13697024, 12558336, 14581760>>,
    <<13713408, 12582912, 14598144>>, <<13721600, 12599296, 14598144>>,
    <<13787136, 12681216, 14647296>>, <<13942784, 12877824, 14761984>>,
    <<13959168, 12886016, 14770176>>, <<13967360, 12894208, 14786560>>,
    <<13975552, 12918784, 14786560>>, <<13991936, 12935168, 14794752>>,
    <<14196736, 13197312, 14950400>>, <<14213120, 13213696, 14966784>>,
    <<14221312, 13238272, 14966784>>, <<14385152, 13443072, 15097856>>,
    <<14401536, 13467648, 15106048>>, <<14409728, 13475840, 15106048>>,
    <<14434304, 13508608, 15138816>>, <<14450688, 13524992, 15147008>>,
    <<14458880, 13541376, 15147008>>, <<14499840, 13590528, 15179776>>,
    <<14508032, 13598720, 15187968>>, <<14548992, 13656064, 15220736>>,
    <<14557184, 13664256, 15220736>>, <<14573568, 13688832, 15228928>>,
    <<14581760, 13697024, 15245312>>, <<14598144, 13721600, 15253504>>,
    <<14647296, 13787136, 15286272>>, <<14761984, 13942784, 15368192>>,
    <<14770176, 13942784, 15376384>>, <<14786560, 13967360, 15392768>>,
    <<14794752, 13975552, 15392768>>, <<14950400, 14196736, 15507456>>,
    <<14966784, 14213120, 15515648>>, <<14974976, 14221312, 15515648>>,
    <<15097856, 14385152, 15622144>>, <<15106048, 14401536, 15622144>>,
    <<15138816, 14450688, 15646720>>, <<15147008, 14450688, 15646720>>,
    <<15179776, 14499840, 15671296>>, <<15187968, 14508032, 15671296>>,
    <<15220736, 14557184, 15704064>>, <<15228928, 14557184, 15704064>>,
    <<15245312, 14598144, 15720448>>, <<15253504, 14598144, 15720448>>,
    <<15286272, 14647296, 15745024>>, <<15368192, 14761984, 15802368>>,
    <<15376384, 14770176, 15818752>>, <<15392768, 14786560, 15818752>>,
    <<15507456, 14950400, 15908864>>, <<15515648, 14966784, 15908864>>,
    <<15532032, 14974976, 15925248>>, <<15622144, 15106048, 15982592>>,
    <<15646720, 15147008, 15998976>>, <<15671296, 15179776, 16023552>>,
    <<15704064, 15228928, 16039936>>, <<15720448, 15245312, 16056320>>,
    <<15745024, 15286272, 16072704>>, <<15802368, 15368192, 16113664>>,
    <<15818752, 15376384, 16113664>>, <<15908864, 15515648, 16195584>>,
    <<15925248, 15532032, 16195584>>, <<15982592, 15622144, 16236544>>,
    <<15998976, 15646720, 16252928>>, <<16007168, 15646720, 16252928>>,
    <<16023552, 15671296, 16269312>>, <<16039936, 15704064, 16269312>>,
    <<16056320, 15720448, 16285696>>, <<16072704, 15745024, 16302080>>,
    <<16113664, 15802368, 16326656>>, <<16195584, 15925248, 16375808>>,
    <<16236544, 15982592, 16408576>>, <<16252928, 16007168, 16424960>>,
    <<16269312, 16023552, 16441344>>, <<16285696, 16056320, 16441344>>,
    <<16302080, 16072704, 16457728>>, <<16326656, 16113664, 16474112>>,
    <<16375808, 16195584, 16506880>>, <<16408576, 16236544, 16531456>>,
    <<16424960, 16252928, 16531456>>, <<16441344, 16285696, 16547840>>,
    <<16457728, 16302080, 16564224>>, <<16474112, 16326656, 16564224>>,
    <<16506880, 16375808, 16596992>>, <<16531456, 16408576, 16613376>>,
    <<16547840, 16441344, 16613376>>, <<16564224, 16457728, 16629760>>,
    <<16596992, 16506880, 16662528>>, <<16613376, 16531456, 16662528>>,
    <<16629760, 16547840, 16678912>>, <<16662528, 16596992, 16695296>>,
    <<16678912, 16629760, 16711680>>, <<16695296, 16662528, 16728064>>,
    <<16711680, 16678912, 16728064>>, <<16728064, 16711680, 16744448>>,
    <<16744448, 16728064, 16760832>>, <<16760832, 16760832, 16760832>>
    >>

F16Values == {F16Table[i][1] : i \in 1 .. Len(F16Table)}
F16Row(p) == F16Table[CHOOSE i \in 1 .. Len(F16Table) : F16Table[i][1] = p]
F16Free == [p \in F16Values |-> F16Row(p)[2]]
F16Occupied == [p \in F16Values |-> F16Row(p)[3]]

\* the sign of the log-odds update of line 178, which the rows above embody
LogOddsUpdate(p, is_occupied) == IF is_occupied THEN F16Occupied[p] ELSE F16Free[p]

\* Angles are held in eighths of a turn (pi/4) and lengths of lines 98-99 in
\* millionths of a centimetre.  np.cos and np.sin of h*pi/4 in double
\* arithmetic, times 10^6 and rounded down, for h = -4 .. 8: cos(6*pi/4) is
\* -1.8e-16 and not 0, which the -1 keeps.
Micro == 1000000
CosTable == <<-1000000, -707107, 0, 707106, 1000000, 707106, 0, -707107,
              -1000000, -707107, -1, 707106, 1000000>>
SinTable == <<-1, -707107, -1000000, -707107, 0, 707106, 1000000, 707106,
              0, -707107, -1000000, -707107, -1>>
CosMicro(h) == CosTable[h + 5]
SinMicro(h) == SinTable[h + 5]

\* lines 70-72, on coordinates in millionths of a centimetre
WorldToGrid(x, y) ==
    <<x \div (resolution_cm * Micro), y \div (resolution_cm * Micro)>>

\* np.round of the rational n/d, d > 0: to the nearest integer, a half to
\* the even one
RoundHalfEven(n, d) ==
    LET q == n \div d
        r == n % d
    IN  IF 2 * r < d THEN q
        ELSE IF 2 * r > d THEN q + 1
        ELSE IF q % 2 = 0 THEN q ELSE q + 1

\* np.interp(x, [xp0, xp1], [fp0, fp1]) as numpy's arr_interp computes it,
\* as a fraction <<n, d>>.  numpy does not check that xp increases: an x
\* above xp1 gets fp1, an x below xp0 gets fp0, x = xp1 gets fp1, and only
\* an x in [xp0, xp1) is interpolated.  With xp0 > xp1, the case of a ray
\* that runs down its driving axis, every x but xp1 is above xp1 and gets
\* fp1, and xp1 is below xp0 and gets fp0.
Interp(x, xp0, xp1, fp0, fp1) ==
    IF x > xp1 THEN <<fp1, 1>>
    ELSE IF x < xp0 THEN <<fp0, 1>>
    ELSE IF x >= xp1 THEN <<fp1, 1>>
    ELSE IF x = xp0 THEN <<fp0, 1>>
    ELSE <<fp0 * (xp1 - xp0) + (x - xp0) * (fp1 - fp0), xp1 - xp0>>

Abs(a) == IF a < 0 THEN 0 - a ELSE a

\* lines 158-163
InGrid(p) ==
    /\ p[1] >= 0 /\ p[1] < width_cells
    /\ p[2] >= 0 /\ p[2] < height_cells

\* _bresenham_line, lines 125-164: the points of the line that are in the
\* grid, in order
BresenhamLine(x0, y0, x1, y1) ==
    LET dx == Abs(x1 - x0)
        dy == Abs(y1 - y0)
        sx == IF x1 > x0 THEN 1 ELSE -1
        sy == IF y1 > y0 THEN 1 ELSE -1
        Rounded(f) == RoundHalfEven(f[1], f[2])
        points ==
            IF dx > dy
            THEN [i \in 1 .. dx + 1 |->
                    LET x == x0 + sx * (i - 1)
                    IN  <<x, Rounded(Interp(x, x0, x1, y0, y1))>>]
            ELSE [i \in 1 .. dy + 1 |->
                    LET y == y0 + sy * (i - 1)
                    IN  <<Rounded(Interp(y, y0, y1, x0, x1)), y>>]
    IN  IF dx = 0 /\ dy = 0
        THEN << <<x0, y0>> >>
        ELSE SelectSeq(points, InGrid)

\* numpy's index of an axis of length n: a negative index counts from the
\* end
WrapIndex(i, n) == IF i < 0 THEN i + n ELSE i
IndexInRange(i, n) == i >= 0 - n /\ i < n

\* the cell that self.grid[cells[:, 1], cells[:, 0]] reads and writes for
\* the point p, lines 179 and 184
GridIndex(p) == <<WrapIndex(p[1], width_cells), WrapIndex(p[2], height_cells)>>

\* _update_cells_vectorized, lines 174-184, on the grid g: the new grid, and
\* whether the indexing of line 179 raised IndexError
UpdateCellsVectorized(g, cells, is_occupied) ==
    IF Len(cells) = 0
    THEN [grid |-> g, raised |-> FALSE]
    ELSE IF \E i \in 1 .. Len(cells) :
               \/ ~IndexInRange(cells[i][1], width_cells)
               \/ ~IndexInRange(cells[i][2], height_cells)
         THEN [grid |-> g, raised |-> TRUE]
         ELSE LET hit == {GridIndex(cells[i]) : i \in 1 .. Len(cells)}
              IN  [grid |-> [c \in Cells |->
                               IF c \in hit
                               THEN LogOddsUpdate(g[c], is_occupied)
                               ELSE g[c]],
                   raised |-> FALSE]

\* cells[:-1] and cells[-1:], lines 111 and 114
AllButLast(s) == IF Len(s) = 0 THEN <<>> ELSE SubSeq(s, 1, Len(s) - 1)
LastOnly(s) == IF Len(s) = 0 THEN <<>> ELSE <<s[Len(s)]>>

\* lines 98-107: the cells of the ray of a reading
\* (RobotPose is [x, y, theta], x and y in whole centimetres)
StartCell(pose) == WorldToGrid(pose.x * Micro, pose.y * Micro)
EndCell(distance, angle, pose) ==
    WorldToGrid(pose.x * Micro + distance * CosMicro(pose.theta + angle),
                pose.y * Micro + distance * SinMicro(pose.theta + angle))
RayCells(distance, angle, pose) ==
    LET s == StartCell(pose)
        e == EndCell(distance, angle, pose)
    IN  BresenhamLine(s[1], s[2], e[1], e[2])

\* lines 193, 194 and 236 on one cell
IsUnknown(p) == Abs(p - Half) < UnknownBand
IsFree(p) == p < FreeBelow

\* the names that mapping_module.py binds at module level, lines 11-27
MappingModuleGlobals ==
    {"np", "json", "logging", "Tuple", "List", "Optional", "dataclass",
     "lru_cache", "logger", "RobotPose", "OccupancyGrid"}

\* ---- the calls on one OccupancyGrid that its users share ----

IdleUpdate(g) == [at |-> "idle", cells |-> <<>>, before |-> g, input |-> <<>>]
Reading(distance, angle, pose) == [distance |-> distance, angle |-> angle, pose |-> pose]

\* update_occupancy, lines 96-111: the ray is traced and the free-space
\* batch written.  No lock is taken, so the other threads run before line
\* 113.
UpdateBegin(distance, angle, pose) ==
    /\ updPc.at = "idle"
    /\ LET cells == RayCells(distance, angle, pose)
           free == UpdateCellsVectorized(grid, AllButLast(cells), FALSE)
       IN  /\ grid' = free.grid
           /\ updPc' = [at |-> IF free.raised THEN "raised" ELSE "occupied",
                        cells |-> cells,
                        before |-> grid,
                        input |-> <<Reading(distance, angle, pose)>>]
    /\ updates' = updates + 1
    /\ readOut' = <<>>
    /\ UNCHANGED <<repeatInput, evidence>>

\* update_occupancy, lines 113-117: the occupied batch, the last cell of the
\* ray, when the ray has a cell in the grid.  An IndexError of line 179 is
\* caught at line 116.
UpdateEnd ==
    /\ updPc.at \in {"occupied", "raised"}
    /\ LET occupied == UpdateCellsVectorized(grid, LastOnly(updPc.cells), TRUE)
       IN  grid' = IF updPc.at = "occupied" THEN occupied.grid ELSE grid
    /\ updPc' = [updPc EXCEPT !.at = "idle", !.before = grid']
    /\ readOut' = <<>>
    /\ UNCHANGED <<updates, repeatInput, evidence>>

\* the grid that the update under way leaves when it returns
GridAfterUpdate ==
    IF updPc.at = "occupied"
    THEN UpdateCellsVectorized(grid, LastOnly(updPc.cells), TRUE).grid
    ELSE grid

\* a reader that runs now sees a grid that is neither the one before the
\* update under way nor the one after it
TornNow ==
    /\ updPc.at = "occupied"
    /\ grid # updPc.before
    /\ grid # GridAfterUpdate

ReadResult(op, raised, frontiers, explored) ==
    [op |-> op, raised |-> raised, frontiers |-> frontiers,
     explored |-> explored, torn |-> TornNow]

\* get_explored_area_percentage, lines 235-237: 100 * (1 - unknown/total),
\* held as the fraction <<100 * (total - unknown), total>>
GetExploredAreaPercentage ==
    /\ LET total_cells == Cardinality(Cells)
           unknown_cells == Cardinality({c \in Cells : IsUnknown(grid[c])})
       IN  readOut' = <<ReadResult("get_explored_area_percentage", "", {},
                                   <<100 * (total_cells - unknown_cells),
                                     total_cells>>)>>
    /\ UNCHANGED <<grid, updPc, updates, repeatInput, evidence>>

\* get_frontiers, lines 193-199: the two masks are computed from the grid,
\* then line 199 names cv2, which the module never imports: NameError, and
\* nothing is returned
GetFrontiers ==
    /\ "cv2" \notin MappingModuleGlobals
    /\ readOut' = <<ReadResult("get_frontiers", "NameError", {}, <<0, 1>>)>>
    /\ UNCHANGED <<grid, updPc, updates, repeatInput, evidence>>

\* One cell through a history of readings: each call of
\* _update_cells_vectorized, lines 174-184, that holds the observed cell,
\* with is_occupied as update_occupancy passes it at lines 111 and 114.
ObservedCell == <<0, 0>>
CellUpdate(is_occupied) ==
    /\ updPc.at = "idle"
    /\ grid' = UpdateCellsVectorized(grid, <<ObservedCell>>, is_occupied).grid
    /\ evidence' = IF is_occupied THEN evidence + 1 ELSE evidence - 1
    /\ updates' = updates + 1
    /\ readOut' = <<>>
    /\ UNCHANGED <<updPc, repeatInput>>

\* the readings of the model
Distances == {0, 20, 50}
SensorAngles == {-1, 0, 1}
PoseXY == {<<0, 0>>, <<5, 35>>, <<55, 25>>, <<-5, 5>>}
PoseThetas == {-2, 0, 2, 4}
Poses == {[x |-> p[1], y |-> p[2], theta |-> t] : p \in PoseXY, t \in PoseThetas}
MaxUpdates == 2
MaxRepeats == 30

InitGridVars ==
    /\ grid = FreshGrid
    /\ updPc = IdleUpdate(FreshGrid)
    /\ updates = 0
    /\ readOut = <<>>
    /\ repeatInput = <<>>
    /\ evidence = 0

\* ---------------------------------------------------------------------------
\* OccupancyGrid.save_grid_to_file and load_grid_from_file
\* ---------------------------------------------------------------------------

\* A path is the sequence of the dot-separated parts of its name.
\* test_mapping_module.py, line 73, and a name that ends in ".npz"
Paths == {<<"test_grid", "json">>, <<"map", "npz">>}

\* np.savez_compressed, line 211: numpy appends ".npz" to a file name that
\* does not end in it.
NpzName(path) == IF path[Len(path)] = "npz" THEN path ELSE Append(path, "npz")

\* a file that some other program left in the directory
ForeignFile == <<"foreign", "npz">>
FileNames == {NpzName(p) : p \in Paths} \cup {ForeignFile}

\* a numpy array: its shape and its elements
Array2D(g) == [shape |-> <<height_cells, width_cells>>, data |-> g]

\* the content of an .npz archive: each entry is absent (<<>>) or <<value>>
Npz(g, r) == [grid |-> g, resolution |-> r]

\* archives that load_grid_from_file can meet and that save_grid_to_file of
\* this grid does not write: an entry missing, an array of another shape or
\* rank, a resolution that is not positive
ForeignContents ==
    { Npz(<<>>, <<resolution_cm>>),
      Npz(<<Array2D(FreshGrid)>>, <<>>),
      Npz(<<[shape |-> <<2>>, data |-> <<Half, Half>>]>>, <<resolution_cm>>),
      Npz(<<[shape |-> <<1, 2>>, data |-> <<Half, Half>>]>>, <<resolution_cm>>),
      Npz(<<Array2D(FreshGrid)>>, <<0>>),
      Npz(<<Array2D(FreshGrid)>>, <<0 - resolution_cm>>) }

\* __init__, lines 41-50, of the grid that loads
FreshObject ==
    [grid |-> Array2D(FreshGrid), resolution_cm |-> resolution_cm,
     width_cells |-> width_cells, height_cells |-> height_cells]

FileCall(op, path, out) == <<[op |-> op, path |-> path, out |-> out]>>

\* save_grid_to_file, lines 207-218: the array and the resolution are written
\* to the name numpy derives from filepath; nothing is returned.
SaveGridToFile(path) ==
    /\ files' = [files EXCEPT ![NpzName(path)] = <<Npz(<<Array2D(grid)>>, <<resolution_cm>>)>>]
    /\ lastSaved' = <<[path |-> path, grid |-> grid, resolution_cm |-> resolution_cm]>>
    /\ fileOut' = FileCall("save_grid_to_file", path, None)
    /\ UNCHANGED other

\* load_grid_from_file, lines 220-231, on the object obj when the directory
\* holds dir: the fields are assigned one at a time at lines 224-226, and an
\* exception at any of them is caught at line 229 with the earlier
\* assignments kept.
\*   line 223  np.load raises for a name that does not exist;
\*   line 224  data['grid'] raises KeyError when the entry is missing;
\*   line 225  data['resolution'] raises KeyError when the entry is missing;
\*   line 226  the unpacking raises ValueError unless the array has rank 2.
LoadResult(obj, dir, path) ==
    IF path \notin DOMAIN dir \/ dir[path] = <<>>
    THEN [obj |-> obj, out |-> FALSE]
    ELSE LET data == dir[path][1]
         IN  IF data.grid = <<>>
             THEN [obj |-> obj, out |-> FALSE]
             ELSE LET o1 == [obj EXCEPT !.grid = data.grid[1]]
                  IN  IF data.resolution = <<>>
                      THEN [obj |-> o1, out |-> FALSE]
                      ELSE LET o2 == [o1 EXCEPT !.resolution_cm = data.resolution[1]]
                           IN  IF Len(o2.grid.shape) # 2
                               THEN [obj |-> o2, out |-> FALSE]
                               ELSE [obj |-> [o2 EXCEPT
                                                !.height_cells = o2.grid.shape[1],
                                                !.width_cells = o2.grid.shape[2]],
                                     out |-> TRUE]

LoadGridFromFile(path) ==
    /\ LET r == LoadResult(other, files, path)
       IN  /\ other' = r.obj
           /\ fileOut' = FileCall("load_grid_from_file", path, r.out)
    /\ UNCHANGED <<files, lastSaved>>

\* another program writes an archive into the directory
ForeignWrite(content) ==
    /\ files[ForeignFile] # <<content>>
    /\ files' = [files EXCEPT ![ForeignFile] = <<content>>]
    /\ fileOut' = <<>>
    /\ UNCHANGED <<other, lastSaved>>

InitFileVars ==
    /\ files = [n \in FileNames |-> <<>>]
    /\ other = FreshObject
    /\ lastSaved = <<>>
    /\ fileOut = <<>>

\* ---------------------------------------------------------------------------
\* single calls
\* ---------------------------------------------------------------------------

\* __init__, lines 44-50.  width_cm / resolution_cm raises
\* ZeroDivisionError for resolution 0; np.full raises ValueError for a
\* negative dimension; every other triple of arguments gives a grid.
Construct(width_cm, height_cm, res) ==
    IF res = 0
    THEN [raised |-> "ZeroDivisionError", obj |-> <<>>]
    ELSE LET w == CeilDiv(width_cm, res)
             h == CeilDiv(height_cm, res)
         IN  IF w < 0 \/ h < 0
             THEN [raised |-> "ValueError", obj |-> <<>>]
             ELSE [raised |-> "",
                   obj |-> <<[grid |-> [shape |-> <<h, w>>,
                                        data |-> [c \in (0 .. w - 1) \X (0 .. h - 1) |-> Half]],
                              resolution_cm |-> res,
                              width_cells |-> w,
                              height_cells |-> h]>>]

\* np.floor(a / b), b # 0
FloorDiv(a, b) == IF b > 0 THEN a \div b ELSE (0 - a) \div (0 - b)

\* _world_to_grid, lines 69-71, with the resolution the object has now
WorldToGridNow(obj, x, y) ==
    <<FloorDiv(x, obj.resolution_cm), FloorDiv(y, obj.resolution_cm)>>

\* _grid_to_world, lines 80-82, with the resolution the object has now; the
\* result is in half centimetres: (g + 0.5) * resolution_cm = (2g + 1) *
\* resolution_cm / 2
GridToWorldNow(obj, gx, gy) ==
    <<(2 * gx + 1) * obj.resolution_cm, (2 * gy + 1) * obj.resolution_cm>>

\* functools.lru_cache, lines 62 and 73: the key is the argument tuple (the
\* object and the coordinates); a call with a key that is in the cache
\* returns the stored result and does not run the method.
Cached(cache, key, computed) == IF key \in DOMAIN cache THEN cache[key] ELSE computed
Remember(cache, key, computed) ==
    [k \in DOMAIN cache \cup {key} |-> IF k \in DOMAIN cache THEN cache[k] ELSE computed]

InitCallVars ==
    /\ callIn = [op |-> "none"]
    /\ callOut = <<>>
    /\ calls = 0
    /\ coordCache = [w2g |-> <<>>, g2w |-> <<>>]


-----------------------------------------------------------------------------
(* The background threads of SensorModule and VoiceCommandHandler: the     *)
(* proximity polling thread and the voice listener thread, started and     *)
(* stopped by one controlling thread (main.py:162-166, 376;                *)
(* tests/test_integration.py:163-179). A start call runs to its return; a  *)
(* stop call clears the flag and then waits in join() while the worker     *)
(* takes its own steps.                                                    *)

Workers == {"poll", "voice"}

\* How many Thread objects are created in one run.
MaxThreads == 3

ThreadIds == 1..MaxThreads

\* threading.Thread.is_alive(): started and its target not yet returned.
IsAlive(i) == i # 0 /\ thr[i].pc \in {"enter", "check", "step"}

AliveThreads(k) == {i \in ThreadIds : thr[i].kind = k /\ IsAlive(i)}

LoopCondition_Forever(k) == TRUE

\* while self._running: / while self._is_listening:
LoopCondition(k) == flag[k]

StartGuard_Always(k) == TRUE

\* if self._x_thread is None or not self._x_thread.is_alive():
StartGuard(k) == handle[k] = 0 \/ ~IsAlive(handle[k])

InitThrRest ==
    /\ flag = [k \in Workers |-> FALSE]
    /\ handle = [k \in Workers |-> 0]
    /\ thr = [i \in ThreadIds |-> [kind |-> "none", pc |-> "unborn"]]
    /\ ctl = [at |-> "idle", kind |-> "none"]
    /\ ctlOut = <<>>

InitThrVars == sensorHw = FALSE /\ InitThrRest

\* The body shared by start_proximity_polling (lines 108-112) and
\* start_listening (lines 92-96): set the flag, create the Thread, keep it in
\* the attribute, start it. The listener begins by opening the microphone,
\* the polling thread at its while test.
StartThread(k) ==
    LET NewThread == Cardinality({i \in ThreadIds : thr[i].pc # "unborn"}) + 1
    IN  /\ NewThread <= MaxThreads
        /\ flag' = [flag EXCEPT ![k] = TRUE]
        /\ thr' = [thr EXCEPT ![NewThread] =
                      [kind |-> k, pc |-> IF k = "voice" THEN "enter" ELSE "check"]]
        /\ handle' = [handle EXCEPT ![k] = NewThread]

StartProximityPolling ==
    /\ ctl.at = "idle"
    /\ IF sensorHw /\ StartGuard("poll")
       THEN StartThread("poll")
       ELSE UNCHANGED <<flag, thr, handle>>
    /\ ctlOut' = <<[op |-> "start_proximity_polling", kind |-> "poll", out |-> "None"]>>
    /\ UNCHANGED <<sensorHw, ctl>>

StartListening ==
    /\ ctl.at = "idle"
    /\ IF StartGuard("voice")
       THEN /\ StartThread("voice")
            /\ ctlOut' = <<[op |-> "start_listening", kind |-> "voice", out |-> "True"]>>
       ELSE /\ UNCHANGED <<flag, thr, handle>>
            /\ ctlOut' = <<[op |-> "start_listening", kind |-> "voice", out |-> "False"]>>
    /\ UNCHANGED <<sensorHw, ctl>>

\* The first two statements of a stop call: clear the flag, test the
\* attribute. With no Thread object the call returns at once, otherwise it
\* enters join().
StopCall(op, k) ==
    /\ ctl.at = "idle"
    /\ flag' = [flag EXCEPT ![k] = FALSE]
    /\ IF handle[k] = 0
       THEN /\ ctl' = ctl
            /\ ctlOut' = <<[op |-> op, kind |-> k, out |-> "None"]>>
       ELSE /\ ctl' = [at |-> "join", kind |-> k, op |-> op]
            /\ ctlOut' = <<>>
    /\ UNCHANGED <<sensorHw, handle, thr>>

StopProximityPolling == StopCall("stop_proximity_polling", "poll")

StopListening == StopCall("stop_listening", "voice")

\* Thread.join() without a timeout returns when the thread is no longer alive.
Join ==
    /\ ctl.at = "join"
    /\ ~IsAlive(handle[ctl.kind])
    /\ ctl' = [at |-> "idle", kind |-> "none"]
    /\ ctlOut' = <<[op |-> ctl.op, kind |-> ctl.kind, out |-> "None"]>>
    /\ UNCHANGED <<sensorHw, flag, handle, thr>>

\* The listener opens the microphone and measures the ambient noise outside
\* its try block: an exception there ends the thread.
ListeningEnter(i, ok) ==
    /\ thr[i].pc = "enter"
    /\ thr' = [thr EXCEPT ![i].pc = IF ok THEN "check" ELSE "ended"]
    /\ ctlOut' = <<>>
    /\ UNCHANGED <<sensorHw, flag, handle, ctl>>

\* The while test of a worker loop.
LoopCheck(i) ==
    /\ thr[i].pc = "check"
    /\ thr' = [thr EXCEPT ![i].pc = IF LoopCondition(thr[i].kind) THEN "step" ELSE "ended"]
    /\ ctlOut' = <<>>
    /\ UNCHANGED <<sensorHw, flag, handle, ctl>>

\* One pass of a worker loop body: a sensor read and a sleep of 0.1 s or 1 s,
\* or a listen with timeout=1 and phrase_time_limit=5 followed by the
\* recognition and the command. Every exception of the body is caught and
\* the loop goes back to its test.
LoopStep(i) ==
    /\ thr[i].pc = "step"
    /\ thr' = [thr EXCEPT ![i].pc = "check"]
    /\ ctlOut' = <<>>
    /\ UNCHANGED <<sensorHw, flag, handle, ctl>>

-----------------------------------------------------------------------------
(* VoiceCommandHandler: what _listening_loop does with one recognized      *)
(* utterance. A text is a sequence of words separated by single spaces; a  *)
(* word is [pre, core, post]: the letters core with further letters before *)
(* it (pre) or after it (post), as "robots" is "robot" with letters after  *)
(* it and "nonstop" is "stop" with letters before it. No core contains     *)
(* another.                                                                *)

\* _commands, lines 35-74, in the order of registration, which is the order
\* of self._commands.items(). A pattern is the sequence of its words, each
\* the set of its alternatives; the optional groups "(?: (\d+) centimeters)?"
\* and "(?: (\d+) degrees)?" match the empty string and are left out.
Commands ==
    << [name |-> "stop",
        patterns |-> << <<{"stop"}>>, <<{"halt"}>>, <<{"freeze"}>> >>],
       [name |-> "move",
        patterns |-> << <<{"move", "go"}, {"forward"}>>,
                        <<{"move", "go"}, {"backward"}>> >>],
       [name |-> "turn",
        patterns |-> << <<{"turn"}, {"left", "right"}>>,
                        <<{"rotate"}, {"left", "right"}>> >>],
       [name |-> "explore",
        patterns |-> << <<{"explore"}>>, <<{"start"}, {"exploration"}>>,
                        <<{"begin"}, {"mapping"}>> >>],
       [name |-> "status",
        patterns |-> << <<{"status"}>>,
                        <<{"what"}, {"is"}, {"your"}, {"status"}>>,
                        <<{"where"}, {"are"}, {"you"}>> >>] >>

\* re.search(pattern, text), line 168: the pattern is found anywhere in the
\* text, so its first word may be the end of a word of the text and its last
\* word the beginning of one
Matches(pattern, text) ==
    \E i \in 1 .. Len(text) - Len(pattern) + 1 :
        \A j \in 1 .. Len(pattern) :
            LET w == text[i + j - 1]
            IN  /\ w.core \in pattern[j]
                /\ j > 1 => ~w.pre
                /\ j < Len(pattern) => ~w.post

WakeWordIn_Never(text) == FALSE

\* self._wake_word in text, line 136, with the wake word of line 32
WakeWordIn(text) == \E i \in 1 .. Len(text) : text[i].core = "robot"

\* _process_command, lines 166-171: the commands in order, the patterns of
\* each in order, the handler of the first pattern that is found; c and p
\* are the command and the pattern the loops are at
RECURSIVE ProcessCommandFrom(_, _, _)
ProcessCommandFrom(text, c, p) ==
    IF c > Len(Commands) THEN "none"
    ELSE IF p > Len(Commands[c].patterns) THEN ProcessCommandFrom(text, c + 1, 1)
    ELSE IF Matches(Commands[c].patterns[p], text) THEN Commands[c].name
    ELSE ProcessCommandFrom(text, c, p + 1)

\* one pass of the loop body, lines 129-145, for the recognized text: the
\* wake word is answered and the pass ends (lines 136-138), otherwise the
\* text goes to _process_command
ListenOnce(text) ==
    /\ callIn' = [op |-> "_listening_loop", args |-> text]
    /\ callOut' = IF WakeWordIn(text)
                  THEN <<[spoken |-> "wake_word", handler |-> "none"]>>
                  ELSE LET h == ProcessCommandFrom(text, 1, 1)
                       IN  <<[spoken |-> IF h = "none" THEN "not_understood" ELSE "handler",
                              handler |-> h]>>
    /\ UNCHANGED <<calls, coordCache>>

-----------------------------------------------------------------------------
(* SpecNav: threads calling the public methods of one NavigationController *)

Speeds == {None, <<25>>}
SetSpeeds == {30, 150}
RangeReadings == {10, 30, 100}
AvoidDistances == {10, 40, 100}
\* bearings, in units of pi/4
AvoidBearings == {0, 1}
StopKinds == {"stop", "emergency_stop"}

InitNavVars ==
    /\ picar \in BOOLEAN
    /\ max_speed = InitialMaxSpeed
    /\ current_pose = [x |-> 0, y |-> 0, theta |-> 0]
    /\ hwOut = <<>>
    /\ stopPc = [t \in Threads |-> IdleStop]
    /\ navEstopCalled = FALSE
    /\ ret = <<>>
    /\ latest_proximity = Inf

InitNav == InitNavVars /\ InitSysVars /\ InitGridVars /\ InitFileVars /\ InitCallVars /\ InitThrVars

NextNav ==
    \/ \E t \in Callers, s \in Speeds, ok \in BOOLEAN :
          NavMoveForward(t, s, ok) /\ UNCHANGED <<sysVars, gridVars, fileVars, callVars, thrVars, histVars>>
    \/ \E t \in Callers, s \in Speeds, ok \in BOOLEAN :
          NavMoveBackward(t, s, ok) /\ UNCHANGED <<sysVars, gridVars, fileVars, callVars, thrVars, histVars>>
    \/ \E t \in Callers, ok \in BOOLEAN : NavTurnLeft(t, ok) /\ UNCHANGED <<sysVars, gridVars, fileVars, callVars, thrVars, histVars>>
    \/ \E t \in Callers, ok \in BOOLEAN : NavTurnRight(t, ok) /\ UNCHANGED <<sysVars, gridVars, fileVars, callVars, thrVars, histVars>>
    \/ \E t \in Callers, k \in StopKinds, ok \in BOOLEAN :
          NavStopBegin(t, k, ok) /\ UNCHANGED <<sysVars, gridVars, fileVars, callVars, thrVars, histVars>>
    \/ \E t \in Callers, ok \in BOOLEAN : NavStopEnd(t, ok) /\ UNCHANGED <<sysVars, gridVars, fileVars, callVars, thrVars, histVars>>
    \/ \E t \in Callers, s \in SetSpeeds : NavSetSpeed(t, s) /\ UNCHANGED <<sysVars, gridVars, fileVars, callVars, thrVars, histVars>>
    \/ \E t \in Callers, d \in AvoidDistances, b \in AvoidBearings :
          NavAvoidObstacle(t, d, b) /\ UNCHANGED <<sysVars, gridVars, fileVars, callVars, thrVars, histVars>>
    \/ \E t \in Callers : NavGetPose(t) /\ UNCHANGED <<sysVars, gridVars, fileVars, callVars, thrVars, histVars>>
    \/ \E t \in Callers, p \in Poses :
          NavUpdatePose(t, p) /\ UNCHANGED <<sysVars, gridVars, fileVars, callVars, thrVars, histVars>>
    \/ \E r \in RangeReadings : SensorPoll(r) /\ UNCHANGED <<sysVars, gridVars, fileVars, callVars, thrVars, histVars>>

SpecNav == InitNav /\ [][NextNav]_vars

-----------------------------------------------------------------------------
(* Properties of the NavigationController, checked under SpecNav *)

\* a call that sets the car in motion reaches the Picarx object in this step
MotionIssued == hwOut' # <<>> /\ IsMotion(hwOut'[1])
ForwardIssued == hwOut' # <<>> /\ hwOut'[1].cmd = "forward"

\* thread t enters / leaves emergency_stop() in this step
EstopBegins(t) ==
    /\ stopPc[t].at = "idle"
    /\ stopPc'[t].at = "angle"
    /\ stopPc'[t].kind = "emergency_stop"
EstopEnds(t) ==
    /\ stopPc[t].at = "angle"
    /\ stopPc[t].kind = "emergency_stop"
    /\ stopPc'[t].at = "idle"

\* C1: once emergency_stop() has been called, no later move_forward,
\* move_backward, turn_left or turn_right call issues a motion command to the
\* hardware.
C1_NoMotionAfterEmergencyStop ==
    [][navEstopCalled => ~MotionIssued]_vars

\* C4 as stated: every emergency_stop() call issues the stop command and then
\* the zero steering angle command, unconditionally, and leaves the
\* controller's state as one call leaves it.
C4_EstopAlwaysIssuesStopAndAngle ==
    [][\A t \in Threads :
        /\ EstopBegins(t) => hwOut' # <<>> /\ hwOut'[1].cmd = "stop"
        /\ EstopEnds(t) =>
             /\ hwOut' # <<>>
             /\ hwOut'[1].cmd = "set_dir_servo_angle"
             /\ hwOut'[1].arg = 0
        /\ (EstopBegins(t) \/ EstopEnds(t)) =>
             UNCHANGED <<picar, max_speed, current_pose>>]_vars

\* C4 as amended: on a controller whose hardware was initialised, every
\* emergency_stop() call issues the stop command and then the zero steering
\* angle command, the latter also when the stop call failed; with no hardware
\* neither call is made.  In both cases the call changes nothing of the
\* controller's state, so any number of calls, from any threads, leave the
\* state one call leaves.
C4_EstopIssuesStopThenAngle ==
    [][\A t \in Threads :
        /\ EstopBegins(t) =>
             IF picar
             THEN hwOut' # <<>> /\ hwOut'[1].cmd = "stop"
                  /\ hwOut'[1].src = "emergency_stop"
             ELSE hwOut' = <<>>
        /\ EstopEnds(t) =>
             IF picar
             THEN /\ hwOut' # <<>>
                  /\ hwOut'[1].cmd = "set_dir_servo_angle"
                  /\ hwOut'[1].arg = 0
                  /\ hwOut'[1].src = "emergency_stop"
             ELSE hwOut' = <<>>
        /\ (EstopBegins(t) \/ EstopEnds(t)) =>
             UNCHANGED <<picar, max_speed, current_pose>>]_vars

\* C4 witness: with hardware present one emergency_stop() call has just
\* issued its zero-angle command and returned, while a concurrent
\* emergency_stop() call, whose stop command failed, is about to issue its own.
C4_Witness ==
    /\ picar
    /\ hwOut # <<>>
    /\ hwOut[1].cmd = "set_dir_servo_angle"
    /\ hwOut[1].src = "emergency_stop"
    /\ ret # <<>>
    /\ ret[1].op = "emergency_stop"
    /\ \E t \in Callers :
          /\ stopPc[t].at = "angle"
          /\ stopPc[t].kind = "emergency_stop"
          /\ ~stopPc[t].stop_success

\* C6: forward motion is never commanded while the most recent range reading
\* is below the minimum obstacle distance.
C6_NoForwardBelowMinDistance ==
    [][ForwardIssued => latest_proximity >= min_obstacle_distance]_vars

\* C7: avoid_obstacle(distance, bearing) reports success and leaves the pose
\* unchanged exactly when distance > min_obstacle_distance + robot_radius +
\* safety_margin; for a smaller or equal distance it turns, so pose.theta
\* changes, and it reports whether the maneuver completed.
C7_AvoidObstacleContract ==
    [][(ret' # <<>> /\ ret'[1].op = "avoid_obstacle") =>
         IF ret'[1].args[1] > min_obstacle_distance + robot_radius + safety_margin
         THEN ret'[1].out = "True" /\ current_pose' = current_pose
         ELSE ret'[1].out \in {"True", "False"}
              /\ current_pose'.theta # current_pose.theta]_vars

-----------------------------------------------------------------------------
(* SpecSys: the threads of a running RobotSystem, from the entry of the     *)
(* main loop (start(), line 171) on.  The fields are those of lines 72-74   *)
(* and the objects those of lines 76-88.  RobotSystem.__init__ itself       *)
(* passes VoiceCommandHandler two keywords its constructor does not take    *)
(* (lines 91-94), so the instance is one built around that call.            *)

InitSys == InitNavVars /\ InitSysVars /\ InitGridVars /\ InitFileVars /\ InitCallVars /\ InitThrVars

NextSys ==
    \/ \E b \in BatteryReadings, c \in CpuTempReadings :
          EnvMetrics(b, c) /\ UNCHANGED <<gridVars, fileVars, callVars, thrVars, histVars>>
    \/ MonLoop /\ UNCHANGED <<gridVars, fileVars, callVars, thrVars, histVars>>
    \/ MonCheckBattery /\ UNCHANGED <<gridVars, fileVars, callVars, thrVars, histVars>>
    \/ MonCheckTemp /\ UNCHANGED <<gridVars, fileVars, callVars, thrVars, histVars>>
    \/ EsSetFlag /\ UNCHANGED <<gridVars, fileVars, callVars, thrVars, histVars>>
    \/ EsClearAutonomous /\ UNCHANGED <<gridVars, fileVars, callVars, thrVars, histVars>>
    \/ \E ok \in BOOLEAN : EsNavStop(ok) /\ UNCHANGED <<gridVars, fileVars, callVars, thrVars, histVars>>
    \/ \E ok \in BOOLEAN : EsNavAngle(ok) /\ UNCHANGED <<gridVars, fileVars, callVars, thrVars, histVars>>
    \/ EsStatus /\ UNCHANGED <<gridVars, fileVars, callVars, thrVars, histVars>>
    \/ MainLoopTop /\ UNCHANGED <<gridVars, fileVars, callVars, thrVars, histVars>>
    \/ \E due \in BOOLEAN, raised \in BOOLEAN :
          MainStatusCheck(due, raised) /\ UNCHANGED <<gridVars, fileVars, callVars, thrVars, histVars>>
    \/ MainCheckAutonomous /\ UNCHANGED <<gridVars, fileVars, callVars, thrVars, histVars>>
    \/ MainAutonomousUpdate /\ UNCHANGED <<gridVars, fileVars, callVars, thrVars, histVars>>
    \/ MainSignal /\ UNCHANGED <<gridVars, fileVars, callVars, thrVars, histVars>>
    \/ ToggleAutonomousMode /\ UNCHANGED <<gridVars, fileVars, callVars, thrVars, histVars>>
    \/ \E ok \in BOOLEAN : VoiceStopBegin(ok) /\ UNCHANGED <<gridVars, fileVars, callVars, thrVars, histVars>>
    \/ \E ok \in BOOLEAN : VoiceStopEnd(ok) /\ UNCHANGED <<gridVars, fileVars, callVars, thrVars, histVars>>
    \/ \E ok \in BOOLEAN : VoiceMoveForward(ok) /\ UNCHANGED <<gridVars, fileVars, callVars, thrVars, histVars>>
    \/ \E op \in {"turn", "find_nearest_frontier", "get_pose"} :
          VoiceMissing(op) /\ UNCHANGED <<gridVars, fileVars, callVars, thrVars, histVars>>

SpecSys == InitSys /\ [][NextSys]_vars

-----------------------------------------------------------------------------
(* Properties of the running system, checked under SpecSys *)

\* the stop call of an emergency stop has reached the hardware
EstopStopIssued == picar /\ navEstopCalled

\* the main thread enters _autonomous_update in this step
AutonomousUpdateStarts == mainPc # "auto" /\ mainPc' = "auto"

-----------------------------------------------------------------------------
(* SpecGrid: one writer and the readers of one OccupancyGrid                *)

InitGrid == InitNavVars /\ InitSysVars /\ InitGridVars /\ InitFileVars /\ InitCallVars /\ InitThrVars

NextGrid ==
    \/ \E d \in Distances, a \in SensorAngles, p \in Poses :
          /\ updates < MaxUpdates
          /\ UpdateBegin(d, a, p)
          /\ UNCHANGED <<histVars, thrVars, navVars, sysVars, fileVars, callVars>>
    \/ UpdateEnd /\ UNCHANGED <<histVars, thrVars, navVars, sysVars, fileVars, callVars>>
    \/ GetExploredAreaPercentage /\ UNCHANGED <<histVars, thrVars, navVars, sysVars, fileVars, callVars>>
    \/ GetFrontiers /\ UNCHANGED <<histVars, thrVars, navVars, sysVars, fileVars, callVars>>

SpecGrid == InitGrid /\ [][NextGrid]_vars

-----------------------------------------------------------------------------
(* SpecRepeat: the same reading applied to one grid again and again         *)

InitRepeat ==
    /\ InitNavVars
    /\ InitSysVars
    /\ InitFileVars
    /\ InitCallVars
    /\ InitThrVars
    /\ grid = FreshGrid
    /\ updPc = IdleUpdate(FreshGrid)
    /\ updates = 0
    /\ readOut = <<>>
    /\ repeatInput \in {<<Reading(d, a, p)>> :
                          d \in Distances, a \in SensorAngles, p \in Poses}
    /\ evidence = 0

RepeatUpdateBegin ==
    /\ updates < MaxRepeats
    /\ UpdateBegin(repeatInput[1].distance, repeatInput[1].angle, repeatInput[1].pose)
    /\ ret' = <<>>
    /\ UNCHANGED <<navRest, sysVars, fileVars, callVars, thrVars, histVars>>

RepeatUpdateEnd ==
    /\ UpdateEnd
    /\ ret' = <<>>
    /\ UNCHANGED <<navRest, sysVars, fileVars, callVars, thrVars, histVars>>

\* a caller asks the controller that holds the grid for the nearest frontier
\* (test_navigation_module.py, line 88; main.py, line 320)
RepeatFindNearestFrontier ==
    \E t \in Callers :
        NavFindNearestFrontier(t) /\ UNCHANGED <<sysVars, gridVars, fileVars, callVars, thrVars, histVars>>

NextRepeat ==
    \/ RepeatUpdateBegin
    \/ RepeatUpdateEnd
    \/ RepeatFindNearestFrontier

SpecRepeat == InitRepeat /\ [][NextRepeat]_vars

-----------------------------------------------------------------------------
(* Properties of the occupancy grid *)

\* C5: no get_explored_area_percentage or get_frontiers call sees a grid in
\* which the free-cell batch of an update has been written and its occupied
\* batch has not.
C5_NoTornRead ==
    readOut # <<>> => ~readOut[1].torn

\* C8: after any sequence of updates every cell is strictly between 0 and 1.
C8_CellsStrictlyBetween0And1 ==
    \A c \in Cells : grid[c] > 0 /\ grid[c] < One

\* the first update of a fresh grid has returned, and its ray lay in the grid
FirstUpdateDone ==
    /\ updates = 1
    /\ updPc.at = "idle"
    /\ updPc.input # <<>>
RayInsideGrid(r) ==
    /\ InGrid(StartCell(r.pose))
    /\ InGrid(EndCell(r.distance, r.angle, r.pose))

\* C9: after one update of a fresh grid whose ray lies in the grid, the cell
\* that holds the end of the ray is above 0.5 and the cell the ray starts in,
\* when it is another one, is below 0.5.
C9_RayFreeEndpointOccupied ==
    (FirstUpdateDone /\ RayInsideGrid(updPc.input[1])) =>
        LET r == updPc.input[1]
            s == StartCell(r.pose)
            e == EndCell(r.distance, r.angle, r.pose)
        IN  /\ grid[e] > Half
            /\ (s # e => grid[s] < Half)

\* the cells that are free and have one of their 8 neighbours in the grid
\* unknown
FrontierCells ==
    {c \in Cells :
        /\ IsFree(grid[c])
        /\ \E n \in Cells :
              /\ n # c
              /\ Abs(n[1] - c[1]) <= 1
              /\ Abs(n[2] - c[2]) <= 1
              /\ IsUnknown(grid[n])}

\* C10: get_frontiers returns exactly the free cells with an unknown
\* neighbour in the grid, so the empty set on a grid without observations.
C10_FrontiersExact ==
    (readOut # <<>> /\ readOut[1].op = "get_frontiers") =>
        /\ readOut[1].raised = ""
        /\ readOut[1].frontiers = FrontierCells

\* the one update made so far is a ray cast from the origin pose
OriginPose == [x |-> 0, y |-> 0, theta |-> 0]
OneRayFromOrigin ==
    /\ FirstUpdateDone
    /\ updPc.input[1].pose = OriginPose

\* cell c has one of its 8 neighbours in the grid in the unknown band
HasUnknownNeighbour(c) ==
    \E n \in Cells :
        /\ n # c
        /\ Abs(n[1] - c[1]) <= 1
        /\ Abs(n[2] - c[2]) <= 1
        /\ IsUnknown(grid[n])

\* C11: on a fresh grid, after a single ray cast from the origin pose,
\* get_frontiers returns a non-empty set, each cell of which has an
\* 8-neighbour in the unknown band.
C11_FrontiersAfterOneRay ==
    (readOut # <<>> /\ readOut[1].op = "get_frontiers" /\ OneRayFromOrigin) =>
        /\ readOut[1].raised = ""
        /\ readOut[1].frontiers # {}
        /\ \A c \in readOut[1].frontiers : HasUnknownNeighbour(c)

-----------------------------------------------------------------------------
(* Properties of exploration, checked under SpecSys *)

\* the main thread leaves _autonomous_update in this step
AutonomousUpdateEnds == mainPc = "auto" /\ mainPc' # "auto"

\* C12: an _autonomous_update that got no frontier leaves exploration mode:
\* autonomous_mode is off when it returns, and the next cycles do not query
\* again.
C12_NoFrontierEndsExploration ==
    [][AutonomousUpdateEnds => ~autonomous_mode']_vars

-----------------------------------------------------------------------------
(* Properties of the choice of the exploration target, checked under        *)
(* SpecRepeat                                                               *)

\* C13: when the frontier set is not empty, find_nearest_frontier answers
\* with a frontier cell, the one nearest to the pose (the smaller grid-y,
\* then the smaller grid-x, among equally near ones); it does not raise.
C13_NearestFrontierChosen ==
    (ret # <<>> /\ ret[1].op = "find_nearest_frontier" /\ FrontierCells # {}) =>
        ret[1].out = "Frontier"


-----------------------------------------------------------------------------
(* SpecFile: a grid that is updated and saved, a second grid that loads    *)

\* test_mapping_module.py, lines 68-69: the ray of test_file_io
TestDistance == 50
MaxFileUpdates == 1

InitFile == InitNavVars /\ InitSysVars /\ InitGridVars /\ InitFileVars /\ InitCallVars /\ InitThrVars

FileUpdateBegin ==
    /\ updates < MaxFileUpdates
    /\ UpdateBegin(TestDistance, 0, OriginPose)
    /\ fileOut' = <<>>
    /\ UNCHANGED <<histVars, thrVars, navVars, sysVars, files, other, lastSaved, callVars>>

FileUpdateEnd ==
    /\ UpdateEnd
    /\ fileOut' = <<>>
    /\ UNCHANGED <<histVars, thrVars, navVars, sysVars, files, other, lastSaved, callVars>>

FileSave ==
    \E path \in Paths :
        SaveGridToFile(path) /\ UNCHANGED <<histVars, thrVars, navVars, sysVars, gridVars, callVars>>

FileLoad ==
    \E path \in Paths \cup FileNames :
        LoadGridFromFile(path) /\ UNCHANGED <<histVars, thrVars, navVars, sysVars, gridVars, callVars>>

FileForeignWrite ==
    \E content \in ForeignContents :
        ForeignWrite(content) /\ UNCHANGED <<histVars, thrVars, navVars, sysVars, gridVars, callVars>>

NextFile ==
    \/ FileUpdateBegin
    \/ FileUpdateEnd
    \/ FileSave
    \/ FileLoad
    \/ FileForeignWrite

SpecFile == InitFile /\ [][NextFile]_vars

\* the call made in this step is load_grid_from_file
LoadReturned == fileOut # <<>> /\ fileOut[1].op = "load_grid_from_file"

\* the object holds exactly what the last save wrote
HoldsLastSaved ==
    /\ other.grid = Array2D(lastSaved[1].grid)
    /\ other.resolution_cm = lastSaved[1].resolution_cm
    /\ other.width_cells = width_cells
    /\ other.height_cells = height_cells

\* C14: save_grid_to_file(path) followed by load_grid_from_file(path) on
\* another grid returns True and leaves that grid with the saved array, the
\* saved resolution and the saved dimensions in cells.
C14_SaveLoadRoundTrip ==
    (LoadReturned /\ lastSaved # <<>> /\ fileOut[1].path = lastSaved[1].path) =>
        /\ fileOut[1].out = TRUE
        /\ HoldsLastSaved


\* C15: a load_grid_from_file call that fails (returns False) leaves the
\* grid object as it was: array, resolution_cm, width_cells, height_cells.
C15_FailedLoadLeavesGridUnmodified ==
    [][(fileOut' # <<>> /\ fileOut'[1].op = "load_grid_from_file"
            /\ fileOut'[1].out = FALSE) => other' = other]_vars

\* the load of this step read an archive with both entries whose resolution
\* is not positive, whose array is not two-dimensional, or whose array has
\* another number of elements than width_cells * height_cells
LoadedCorruptData ==
    /\ LoadReturned
    /\ fileOut[1].path \in FileNames
    /\ files[fileOut[1].path] # <<>>
    /\ LET data == files[fileOut[1].path][1]
       IN  /\ data.grid # <<>>
           /\ data.resolution # <<>>
           /\ \/ data.resolution[1] <= 0
              \/ Len(data.grid[1].shape) # 2
              \/ Cardinality(DOMAIN data.grid[1].data) # width_cells * height_cells

\* C16: load_grid_from_file rejects every archive whose resolution is not
\* positive or whose array does not have width_cells * height_cells
\* elements in two dimensions.
C16_CorruptMapRejected == LoadedCorruptData => fileOut[1].out = FALSE


-----------------------------------------------------------------------------
(* SpecCalls: one OccupancyGrid is constructed, converts coordinates and    *)
(* loads a saved map                                                        *)

WidthArgs == {0 - GridWidthCm, -5, 0, 25, GridWidthCm}
HeightArgs == {0 - GridHeightCm, GridHeightCm}
ResolutionArgs == {0 - resolution_cm, 0, 1, resolution_cm}
WorldPoints == {<<2, 0>>, <<25, 0>>, <<-5, 5>>, <<55, 35>>}
MaxCalls == 4

\* the directory holds a map saved by OccupancyGrid(GridWidthCm,
\* GridHeightCm, resolution_cm) under a name that ends in ".npz"
InitCalls ==
    /\ InitNavVars /\ InitSysVars /\ InitGridVars /\ InitCallVars /\ InitThrVars
    /\ files = [n \in FileNames |->
                  IF n = <<"map", "npz">>
                  THEN <<Npz(<<Array2D(FreshGrid)>>, <<resolution_cm>>)>>
                  ELSE <<>>]
    /\ other = <<>>
    /\ lastSaved = <<>>
    /\ fileOut = <<>>

\* OccupancyGrid(width_cm, height_cm, res)
CallConstruct ==
    \E width_cm \in WidthArgs, height_cm \in HeightArgs, res \in ResolutionArgs :
        /\ callIn.op = "none"
        /\ LET r == Construct(width_cm, height_cm, res)
           IN  /\ callOut' = <<r>>
               /\ other' = IF r.obj = <<>> THEN <<>> ELSE r.obj[1]
        /\ callIn' = [op |-> "__init__", args |-> <<width_cm, height_cm, res>>]
        /\ calls' = calls + 1
        /\ fileOut' = <<>>
        /\ UNCHANGED <<histVars, thrVars, navVars, sysVars, gridVars, files, lastSaved, coordCache>>

\* test_mapping_module.py, lines 42-43: a world point is converted to a
\* cell and the cell back to a world point, each through its cache
CallRoundTrip ==
    \E p \in WorldPoints :
        /\ other # <<>>
        /\ calls < MaxCalls
        /\ LET cell == Cached(coordCache.w2g, p, WorldToGridNow(other, p[1], p[2]))
               back == Cached(coordCache.g2w, cell, GridToWorldNow(other, cell[1], cell[2]))
           IN  /\ callOut' = <<[cell |-> cell, back |-> back]>>
               /\ coordCache' = [w2g |-> Remember(coordCache.w2g, p, cell),
                                 g2w |-> Remember(coordCache.g2w, cell, back)]
        /\ callIn' = [op |-> "round_trip", args |-> p]
        /\ calls' = calls + 1
        /\ fileOut' = <<>>
        /\ UNCHANGED <<histVars, thrVars, navVars, sysVars, gridVars, files, other, lastSaved>>

\* the object loads the saved map
CallLoad ==
    /\ other # <<>>
    /\ calls < MaxCalls
    /\ LoadGridFromFile(<<"map", "npz">>)
    /\ callIn' = [op |-> "load_grid_from_file", args |-> <<"map", "npz">>]
    /\ callOut' = <<>>
    /\ calls' = calls + 1
    /\ UNCHANGED <<histVars, thrVars, navVars, sysVars, gridVars, coordCache>>

NextCalls ==
    \/ CallConstruct
    \/ CallRoundTrip
    \/ CallLoad

SpecCalls == InitCalls /\ [][NextCalls]_vars


\* the call made in this step is the constructor
Constructed == callIn.op = "__init__" /\ callOut # <<>>

\* C17: constructing an OccupancyGrid with a resolution, width or height
\* that is not positive fails, and no grid object is created.
C17_NonPositiveArgumentsRejected ==
    (Constructed /\ \E i \in 1 .. 3 : callIn.args[i] <= 0) =>
        /\ callOut[1].raised # ""
        /\ callOut[1].obj = <<>>

\* n is the least integer with n * b >= a, for b > 0
IsCeiling(n, a, b) == n * b >= a /\ (n - 1) * b < a

RoundTripped == callIn.op = "round_trip" /\ callOut # <<>>

\* lines 158-163: the cell that point p lies in, with the object's
\* resolution, is a cell of the object's grid
InBounds(p) ==
    /\ other.resolution_cm > 0
    /\ LET c == WorldToGridNow(other, p[1], p[2])
       IN  /\ c[1] >= 0 /\ c[1] < other.width_cells
           /\ c[2] >= 0 /\ c[2] < other.height_cells

\* C19: for a world point inside the grid, _grid_to_world(_world_to_grid(x,
\* y)) differs from (x, y) by at most one resolution unit in each
\* coordinate.
C19_RoundTripWithinOneCell ==
    (RoundTripped /\ InBounds(callIn.args)) =>
        /\ Abs(2 * callIn.args[1] - callOut[1].back[1]) <= 2 * other.resolution_cm
        /\ Abs(2 * callIn.args[2] - callOut[1].back[2]) <= 2 * other.resolution_cm

\* C20: the transform is offset by an origin cell inside the grid, so that
\* a world point with negative coordinates within half the mapped width and
\* height of world (0, 0) falls on a cell of the grid.
C20_NegativePointsInBounds ==
    (/\ RoundTripped
     /\ other.resolution_cm > 0
     /\ 2 * Abs(callIn.args[1]) < other.width_cells * other.resolution_cm
     /\ 2 * Abs(callIn.args[2]) < other.height_cells * other.resolution_cm) =>
        /\ callOut[1].cell[1] >= 0 /\ callOut[1].cell[1] < other.width_cells
        /\ callOut[1].cell[2] >= 0 /\ callOut[1].cell[2] < other.height_cells


\* C21: the coordinate cache never gives a stale result: the cell and the
\* world point that a conversion returns are those computed from the
\* resolution the grid has at the time of the call, also after
\* load_grid_from_file has changed the resolution.
C21_CacheNeverStale ==
    RoundTripped =>
        /\ callOut[1].cell = WorldToGridNow(other, callIn.args[1], callIn.args[2])
        /\ callOut[1].back =
               GridToWorldNow(other, callOut[1].cell[1], callOut[1].cell[2])


\* C22: the pose is written and read as a whole: update_pose(p) stores p,
\* and get_pose returns the stored pose, x, y and theta of one update.
C22_PoseReadWrittenWhole ==
    [][/\ (ret' # <<>> /\ ret'[1].op = "update_pose") =>
              current_pose' = ret'[1].args[1]
       /\ (ret' # <<>> /\ ret'[1].op = "get_pose") =>
              ret'[1].out # "AttributeError"]_vars


\* the step is the return of move_forward, move_backward, turn_left,
\* turn_right or stop
MotionCommandReturns ==
    /\ ret' # <<>>
    /\ ret'[1].op \in {"move_forward", "move_backward", "turn_left", "turn_right", "stop"}

\* in the step a hardware call was skipped for want of hardware, or raised;
\* for stop, the same of its first hardware call
HardwareCallFailed ==
    \/ ~picar
    \/ hwOut' # <<>> /\ ~hwOut'[1].ok
    \/ \E t \in Threads :
          stopPc[t].at = "angle" /\ stopPc'[t].at = "idle" /\ ~stopPc[t].stop_success

\* C23: every motion command returns True or False and raises nothing; it
\* returns False when the hardware is absent or a hardware call raises, and
\* it leaves the speed setting, the hardware handle and the pose unchanged.
C23_MotionCommandsReturnBool ==
    [][MotionCommandReturns =>
         /\ ret'[1].out \in {"True", "False"}
         /\ HardwareCallFailed => ret'[1].out = "False"
         /\ max_speed' = max_speed
         /\ picar' = picar
         /\ current_pose' = current_pose]_vars

\* move_forward has just returned False because the forward call raised
C23_Witness ==
    /\ ret # <<>>
    /\ ret[1].op = "move_forward"
    /\ ret[1].out = "False"
    /\ picar
    /\ hwOut # <<>>
    /\ hwOut[1].cmd = "forward"
    /\ ~hwOut[1].ok


\* C24: the main loop is ended by no failing step: it ends only in a step
\* that leaves is_running False, and a step of the loop in which the status
\* check or the autonomous update raised leads to the next iteration.
C24_MainLoopSurvivesFailures ==
    [][/\ (mainPc # "exited" /\ mainPc' = "exited") => ~is_running'
       /\ (mainPc \in {"status", "auto"} /\ mainPc' # mainPc /\ ret' # <<>>
             /\ ret'[1].out \in {"Exception", "AttributeError"}) =>
              mainPc' = "loop"]_vars

\* the status check has just raised and the loop is at its next iteration
C24_Witness ==
    /\ ret # <<>>
    /\ ret[1].op = "get_current_status"
    /\ ret[1].out = "Exception"
    /\ mainPc = "loop"
    /\ is_running


\* C25: every shutdown() call, on the main thread or on the monitoring
\* thread, clears is_running, issues nav.stop() and saves the final map
\* before the thread exits (is_running is cleared by shutdown() only).
C25_ShutdownStopsAndSaves ==
    [][(is_running /\ ~is_running') =>
         /\ ~monRunning'
         /\ ret' # <<>> /\ ret'[1].op = "stop"
         /\ lastSaved' # <<>>]_vars


\* C28: an utterance that matches the forward-move pattern or a turn
\* pattern makes _process_command return True with the command passed to
\* the navigation controller: _handle_move returns True, and the turn that
\* _handle_turn asks of the controller is carried out.
C28_MatchedCommandSucceeds ==
    /\ (ret # <<>> /\ ret[1].op = "_handle_move") => ret[1].out = "True"
    /\ (ret # <<>> /\ ret[1].op = "turn") => ret[1].out \in {"True", "False"}


\* C29: after one update of a fresh grid occupied evidence is on no cell but
\* the one that holds the end of the ray; when the end of the ray is
\* outside the grid, no cell is above 0.5.
C29_OccupiedOnlyAtEndpoint ==
    FirstUpdateDone =>
        LET r == updPc.input[1]
        IN  \A c \in Cells :
                grid[c] > Half => c = EndCell(r.distance, r.angle, r.pose)

\* C30: for a ray whose two ends are cells of the grid, _bresenham_line gives
\* max(|x1 - x0|, |y1 - y0|) + 1 distinct cells, the first the start cell
\* and the last the end cell.
C30_BresenhamEndsAndLength ==
    (updPc.input # <<>> /\ RayInsideGrid(updPc.input[1])) =>
        LET r == updPc.input[1]
            s == StartCell(r.pose)
            e == EndCell(r.distance, r.angle, r.pose)
            cells == updPc.cells
            n == Max(Abs(e[1] - s[1]), Abs(e[2] - s[2])) + 1
        IN  /\ Len(cells) = n
            /\ cells[1] = s
            /\ cells[n] = e
            /\ \A i, j \in 1 .. n : i # j => cells[i] # cells[j]


-----------------------------------------------------------------------------
(* SpecThreads: one thread starting and stopping the proximity polling     *)
(* thread and the voice listener thread. SpecThreadsFair adds that a       *)
(* worker thread which can take a step eventually takes it: every step of  *)
(* a loop body is a bounded wait.                                          *)

InitThreads ==
    /\ InitNavVars /\ InitSysVars /\ InitGridVars /\ InitFileVars /\ InitCallVars
    /\ sensorHw \in BOOLEAN
    /\ InitThrRest

NextThreads ==
    \/ StartProximityPolling /\ UNCHANGED <<navVars, sysVars, gridVars, fileVars, callVars, histVars>>
    \/ StartListening /\ UNCHANGED <<navVars, sysVars, gridVars, fileVars, callVars, histVars>>
    \/ StopProximityPolling /\ UNCHANGED <<navVars, sysVars, gridVars, fileVars, callVars, histVars>>
    \/ StopListening /\ UNCHANGED <<navVars, sysVars, gridVars, fileVars, callVars, histVars>>
    \/ Join /\ UNCHANGED <<navVars, sysVars, gridVars, fileVars, callVars, histVars>>
    \/ \E i \in ThreadIds, ok \in BOOLEAN :
           ListeningEnter(i, ok) /\ UNCHANGED <<navVars, sysVars, gridVars, fileVars, callVars, histVars>>
    \/ \E i \in ThreadIds :
           LoopCheck(i) /\ UNCHANGED <<navVars, sysVars, gridVars, fileVars, callVars, histVars>>
    \/ \E i \in ThreadIds :
           LoopStep(i) /\ UNCHANGED <<navVars, sysVars, gridVars, fileVars, callVars, histVars>>

SpecThreads == InitThreads /\ [][NextThreads]_vars

SpecThreadsFair ==
    /\ SpecThreads
    /\ \A i \in ThreadIds :
           /\ WF_thrVars(\E ok \in BOOLEAN : ListeningEnter(i, ok))
           /\ WF_thrVars(LoopCheck(i))
           /\ WF_thrVars(LoopStep(i))

C27_AtMostOneListener ==
    /\ [][/\ (ctlOut' # <<>> /\ ctlOut'[1].op = "start_listening") =>
                IF AliveThreads("voice") = {}
                THEN /\ ctlOut'[1].out = "True"
                     /\ Cardinality(AliveThreads("voice")') = 1
                     /\ flag'["voice"]
                ELSE /\ ctlOut'[1].out = "False"
                     /\ thr' = thr
          /\ (ctlOut' # <<>> /\ ctlOut'[1].op = "stop_listening") =>
                /\ ~flag'["voice"]
                /\ AliveThreads("voice")' = {}]_vars
    /\ [](Cardinality(AliveThreads("voice")) <= 1)

\* C27 witness: a second listener was started after stop_listening() had
\* ended the first, and a further start_listening() has returned False while
\* that second listener is alive.
C27_Witness ==
    /\ ctlOut # <<>>
    /\ ctlOut[1].op = "start_listening"
    /\ ctlOut[1].out = "False"
    /\ IsAlive(handle["voice"])
    /\ \E i \in ThreadIds : thr[i].kind = "voice" /\ thr[i].pc = "ended"


-----------------------------------------------------------------------------
(* Properties of update_occupancy on rays that leave the grid *)

\* C31: update_occupancy indexes the grid only with cells inside
\* 0 <= x < width_cells, 0 <= y < height_cells, and after one update of a
\* fresh grid whose ray has no cell inside the grid the grid is unchanged.
C31_NoIndexOutsideGrid ==
    updPc.input # <<>> =>
        /\ \A i \in 1 .. Len(updPc.cells) : InGrid(updPc.cells[i])
        /\ (FirstUpdateDone /\ \A i \in 1 .. Len(updPc.cells) : ~InGrid(updPc.cells[i]))
               => grid = FreshGrid


-----------------------------------------------------------------------------
(* Properties of the dimensions of a constructed grid *)

\* C32: no load_grid_from_file call, successful or failed, changes
\* resolution_cm, width_cells or height_cells of the grid, and after it the
\* array still has the shape (height_cells, width_cells).
C32_GridNeverResized ==
    [][(other # <<>> /\ callIn'.op = "load_grid_from_file") =>
          /\ other'.resolution_cm = other.resolution_cm
          /\ other'.width_cells = other.width_cells
          /\ other'.height_cells = other.height_cells
          /\ other'.grid.shape = <<other.height_cells, other.width_cells>>]_vars


\* C33: an update_occupancy call changes no cell that is not on its
\* rasterized ray, gives each cell of the ray one evidence increment (free
\* for all but the last, occupied for the last), and get_frontiers and
\* get_explored_area_percentage leave the grid as it is.
C33_UpdateChangesOnlyRayCells ==
    [][/\ (updPc.at # "idle" /\ updPc'.at = "idle") =>
              LET cells == updPc.cells
                  n == Len(cells)
              IN  \A c \in Cells :
                      grid'[c] =
                          IF \E i \in 1 .. n - 1 : cells[i] = c
                          THEN LogOddsUpdate(updPc.before[c], FALSE)
                          ELSE IF n > 0 /\ cells[n] = c
                          THEN LogOddsUpdate(updPc.before[c], TRUE)
                          ELSE updPc.before[c]
       /\ readOut' # <<>> => grid' = grid]_vars


-----------------------------------------------------------------------------
(* SpecCell: one cell of a fresh grid through a history of free and        *)
(* occupied updates, and the explored percentage read in between           *)

MaxCellUpdates == 11

NextCell ==
    \/ \E is_occupied \in BOOLEAN :
          /\ updates < MaxCellUpdates
          /\ CellUpdate(is_occupied)
          /\ UNCHANGED <<histVars, thrVars, navVars, sysVars, fileVars, callVars>>
    \/ GetExploredAreaPercentage /\ UNCHANGED <<histVars, thrVars, navVars, sysVars, fileVars, callVars>>

SpecCell == InitGrid /\ [][NextCell]_vars

\* C34: a cell is unknown exactly when its net evidence is -1, 0 or 1, free
\* exactly when it is -3 or less, and never both; the explored percentage
\* is 0 while no more than one update was made and is always within 0 and
\* 100.
C34_ClassFollowsNetEvidence ==
    /\ IsUnknown(grid[ObservedCell]) <=> evidence \in {-1, 0, 1}
    /\ IsFree(grid[ObservedCell]) <=> evidence <= -3
    /\ ~(IsUnknown(grid[ObservedCell]) /\ IsFree(grid[ObservedCell]))
    /\ readOut # <<>> =>
          LET e == readOut[1].explored
          IN  /\ e[1] >= 0
              /\ e[1] <= 100 * e[2]
              /\ updates <= 1 => e[1] = 0


-----------------------------------------------------------------------------
(* Properties of the monitoring cycle *)

-----------------------------------------------------------------------------
(* SpecMonitor: the callers of SystemMonitor.start() and stop() and the    *)
(* monitoring threads they create. The flag is is_running, the Thread held *)
(* is monitor_thread, and the loop of a thread is _monitoring_loop: the    *)
(* while test of line 99 and the body of lines 100-108.                    *)

InitMonitor ==
    /\ InitNavVars /\ InitSysVars /\ InitGridVars /\ InitFileVars /\ InitCallVars
    /\ sensorHw = FALSE
    /\ flag = [k \in {"monitor"} |-> FALSE]
    /\ handle = [k \in {"monitor"} |-> 0]
    /\ thr = [i \in ThreadIds |-> [kind |-> "none", pc |-> "unborn"]]
    /\ ctl = [c \in Callers |-> "idle"]
    /\ ctlOut = <<>>

\* start(), lines 70-71: the test of is_running
MonitorStartTest(c) ==
    /\ ctl[c] = "idle"
    /\ IF flag["monitor"]
       THEN /\ ctl' = ctl
            /\ ctlOut' = <<[op |-> "start", kind |-> "monitor", out |-> "None"]>>
       ELSE /\ ctl' = [ctl EXCEPT ![c] = "start"]
            /\ ctlOut' = <<>>
    /\ UNCHANGED <<sensorHw, flag, handle, thr>>

\* start(), lines 73-80: the flag is set, the thread created and started
MonitorStartThread(c) ==
    /\ ctl[c] = "start"
    /\ StartThread("monitor")
    /\ ctl' = [ctl EXCEPT ![c] = "idle"]
    /\ ctlOut' = <<[op |-> "start", kind |-> "monitor", out |-> "None"]>>
    /\ UNCHANGED sensorHw

\* stop(), lines 84-85
MonitorStop(c) ==
    /\ ctl[c] = "idle"
    /\ flag' = [flag EXCEPT !["monitor"] = FALSE]
    /\ IF handle["monitor"] = 0
       THEN /\ ctl' = ctl
            /\ ctlOut' = <<[op |-> "stop", kind |-> "monitor", out |-> "None"]>>
       ELSE /\ ctl' = [ctl EXCEPT ![c] = "join"]
            /\ ctlOut' = <<>>
    /\ UNCHANGED <<sensorHw, handle, thr>>

\* stop(), lines 86-87: join(timeout=2.0) returns when the thread held now
\* has ended, or when the two seconds have passed
MonitorJoin(c, timed_out) ==
    /\ ctl[c] = "join"
    /\ timed_out \/ ~IsAlive(handle["monitor"])
    /\ ctl' = [ctl EXCEPT ![c] = "idle"]
    /\ ctlOut' = <<[op |-> "stop", kind |-> "monitor", out |-> "None"]>>
    /\ UNCHANGED <<sensorHw, flag, handle, thr>>

NextMonitor ==
    \/ \E c \in Callers :
           MonitorStartTest(c) /\ UNCHANGED <<navVars, sysVars, gridVars, fileVars, callVars, histVars>>
    \/ \E c \in Callers :
           MonitorStartThread(c) /\ UNCHANGED <<navVars, sysVars, gridVars, fileVars, callVars, histVars>>
    \/ \E c \in Callers :
           MonitorStop(c) /\ UNCHANGED <<navVars, sysVars, gridVars, fileVars, callVars, histVars>>
    \/ \E c \in Callers, timed_out \in BOOLEAN :
           MonitorJoin(c, timed_out) /\ UNCHANGED <<navVars, sysVars, gridVars, fileVars, callVars, histVars>>
    \/ \E i \in ThreadIds :
           LoopCheck(i) /\ UNCHANGED <<navVars, sysVars, gridVars, fileVars, callVars, histVars>>
    \/ \E i \in ThreadIds :
           LoopStep(i) /\ UNCHANGED <<navVars, sysVars, gridVars, fileVars, callVars, histVars>>

SpecMonitor == InitMonitor /\ [][NextMonitor]_vars

\* C36: at no time is more than one monitoring thread inside the body of
\* _monitoring_loop, whatever start() and stop() calls were made and however
\* they interleave.
C36_AtMostOneMonitoringThread ==
    Cardinality({i \in ThreadIds : thr[i].kind = "monitor" /\ thr[i].pc = "step"}) <= 1


-----------------------------------------------------------------------------
(* Properties of the status check of the main loop *)

\* C37: a status check of the main loop that finds the conditions unsafe
\* leaves autonomous_mode False; _autonomous_update is started only with
\* autonomous_mode True; and no step of the main loop or of the monitoring
\* thread turns autonomous_mode on: after an unsafe status check no
\* _autonomous_update runs until toggle_autonomous_mode has switched the
\* mode on again.
C37_UnsafeStatusPausesExploration ==
    [][/\ (ret' # <<>> /\ ret'[1].op = "_check_safe_to_continue"
             /\ ret'[1].out = "False") => ~autonomous_mode'
       /\ AutonomousUpdateStarts => autonomous_mode
       /\ (~autonomous_mode /\ autonomous_mode') =>
             (mainPc' = mainPc /\ monPc' = monPc)]_vars

\* C37 witness: the status check has just found the battery at warning
\* level with no emergency stop triggered, the mode is off and the main loop
\* is at the test that guards _autonomous_update.
C37_Witness ==
    /\ ret # <<>>
    /\ ret[1].op = "_check_safe_to_continue"
    /\ ret[1].out = "False"
    /\ ret[1].args[1].battery_voltage = BATTERY_WARNING_VOLTAGE
    /\ ~emergency_stop_triggered
    /\ ~autonomous_mode
    /\ mainPc = "check"
    /\ is_running


-----------------------------------------------------------------------------
(* SpecHistory: the monitoring thread records one reading after another    *)

MaxReadings == 125

NextHistory ==
    /\ readings < MaxReadings
    /\ UpdateHistory
    /\ UNCHANGED <<navVars, sysVars, gridVars, fileVars, callVars, thrVars>>

SpecHistory == InitGrid /\ [][NextHistory]_vars

\* C38: after every _update_history call the history holds the most recent
\* min(n, 60) of the n readings recorded so far, in arrival order, and so
\* never more than 60.
C38_HistoryHoldsLast60 ==
    LET n == readings
        m == Min(n, status_history_max_size)
    IN  /\ Len(status_history) = m
        /\ Len(status_history) <= status_history_max_size
        /\ \A i \in 1 .. m : status_history[i] = n - m + i

\* C38 witness: more than 60 readings were recorded, the oldest were dropped
\* and the history is full.
C38_Witness ==
    /\ readings > status_history_max_size + 1
    /\ Len(status_history) = status_history_max_size
    /\ status_history[1] = readings - status_history_max_size + 1


-----------------------------------------------------------------------------
(* SpecVoice: the listening loop hears one utterance after another         *)

\* the words of the model: "robot" and "robots", "stop", "go" and "ago",
\* "forward"
Words ==
    {[pre |-> FALSE, core |-> c, post |-> FALSE] : c \in {"robot", "stop", "go", "forward"}}
    \cup {[pre |-> FALSE, core |-> "robot", post |-> TRUE],
          [pre |-> TRUE, core |-> "go", post |-> FALSE]}

MaxWords == 3

Utterances == UNION {[1 .. n -> Words] : n \in 1 .. MaxWords}

\* the recognizer has returned a text, line 133, lowercased
InitVoice ==
    /\ InitNavVars /\ InitSysVars /\ InitGridVars /\ InitFileVars /\ InitThrVars
    /\ callIn \in {[op |-> "recognize_google", args |-> text] : text \in Utterances}
    /\ callOut = <<>>
    /\ calls = 0
    /\ coordCache = [w2g |-> <<>>, g2w |-> <<>>]

NextVoice ==
    /\ callIn.op = "recognize_google"
    /\ ListenOnce(callIn.args)
    /\ UNCHANGED <<histVars, thrVars, navVars, sysVars, gridVars, fileVars>>

SpecVoice == InitVoice /\ [][NextVoice]_vars

=============================================================================
